---- MODULE Spec2Model ----
(***************************************************************************)
(* A model of pyctr: the default overload (overloads/py_defaults.py), the  *)
(* rewrite passes (transformers/virtualization) and the conversion         *)
(* pipeline (api/conversion.py).                                           *)
(*                                                                         *)
(* Python values are records [t |-> tag, n |-> number, s |-> sequence,     *)
(* nm |-> name]: "int" (n), "bool" (n is 1 or 0), "none", "undef" an       *)
(* Undefined object carrying the declared name (nm), "ref" the address n   *)
(* of a heap object (a Variable or a list), "tuple" a sequence s of        *)
(* values.  Heap objects are records [k |-> "Variable" | "list", val,      *)
(* name].  An outcome is [exc |-> "" | <exception type>, v |-> value,      *)
(* msg |-> the name the error message carries].                            *)
(***************************************************************************)
EXTENDS Integers, Sequences, FiniteSets, TLC

VARIABLES
  store,        \* SpecStore: the heap of py_defaults.Variable objects
  assigned,     \* SpecStore: per handle, has assign been called since init
  lastAssigned, \* SpecStore: per handle, the value of the latest assign
  lastRead,     \* SpecStore: the handle and outcome of the read just made
  bvals,        \* SpecBool: the values the operands of the chain evaluate to
  btree,        \* SpecBool: the expression of test_fn, before or after the pass
  bpc,          \* SpecBool: position in conversion and in and_/or_
  bidx,         \* SpecBool: position of the loop `for op in operands`
  bevals,       \* SpecBool: the operands evaluated so far, in order
  bres,         \* SpecBool: the value returned by the converted function
  rcase,        \* SpecRun: the function, its arguments and the transformers
  rpc,          \* SpecRun: position in convert and in the calls
  rtree,        \* SpecRun: the source, before, between and after the passes
  rgen,         \* SpecRun: the namer's generated_names
  rtodo,        \* SpecRun: the transformers still to apply
  rheap,        \* SpecRun: the heap of the interpreter that runs convert
  rfn,          \* SpecRun: the original, generated and converted function
  rorig,        \* SpecRun: the outcome of the call of the original function
  rconv,        \* SpecRun: the outcome of the call of the converted function
  pcase,        \* SpecPass: the function, the overload's hooks, the transformers
  ppc,          \* SpecPass: position in _transform
  ptree,        \* SpecPass: the source, before, between and after the passes
  pgen,         \* SpecPass: the namer's generated_names
  ptodo,        \* SpecPass: the transformers still to apply
  ccase,        \* SpecCall: the call, and the values of its operands
  cpc,          \* SpecCall: position in the conversion and in the calls
  ctree,        \* SpecCall: the call expression, before and after the pass
  corig,        \* SpecCall: what the callee of the original call receives
  cconv,        \* SpecCall: what the callee of the rewritten call receives
  scase,        \* SpecScope: the nest of functions given to the ScopeTransformer
  spc,          \* SpecScope: position in the walk
  sevs,         \* SpecScope: the visits still to make, in order
  sst,          \* SpecScope: the ScopeTransformer's scopes and current scope
  gpc,          \* SpecStage: whether the RewritingCallOverload is constructed
  gregistry,    \* SpecStage: RewritingCallOverload._registry
  gwrappers,    \* SpecStage: the decorators returned by replaces, by the original each closes over
  gfirst,       \* SpecStage: the first replacement registered for each original
  gwrites,      \* SpecStage: how often each original was written to the registry
  glast,        \* SpecStage: the outcome of the last operation
  ipc,          \* SpecIso: whether the variables exist
  ivals,        \* SpecIso: the val of each Variable
  istack,       \* SpecIso: the calls of execute_isolated in progress, innermost first
  isteps,       \* SpecIso: the steps taken so far
  ilast,        \* SpecIso: what execute_isolated has just returned
  ecase,        \* SpecParse: the entity, its source and what the parser says of each source
  epc,          \* SpecParse: position in parse_entity
  etried,       \* SpecParse: the sources given to parse_str, in order
  eres,         \* SpecParse: what parse_entity returned or raised
  npc,          \* SpecNamer: whether the Namer of a conversion exists
  ngen,         \* SpecNamer: Namer.generated_names
  nhist,        \* SpecNamer: the calls of new_symbol so far: the name returned and the names reserved
  vcase,        \* SpecVisit: the tree visited and what the subclass's visit method does
  vpc,          \* SpecVisit: position in the outermost visit
  vstack,       \* SpecVisit: the nodes whose visit is in progress, innermost first
  vbroken,      \* SpecVisit: the nodes the subclass has corrupted
  vorig,        \* SpecVisit: the exception as first raised
  vexc,         \* SpecVisit: the exception in flight
  kpc,          \* SpecOps: whether the Scope exists
  kscope,       \* SpecOps: the Scope
  klast,        \* SpecOps: the last operation on the Scope, and the Scope before it
  kfreed,       \* SpecOps: the names given to add_free while they were local
  wcase,        \* SpecWhile: the outcomes of cond and body in this run
  wpc,          \* SpecWhile: the position in while_stmt or run_python_while
  wwho,         \* SpecWhile: the function under way: py_defaults.while_stmt or tf.while_stmt
  wi,           \* SpecWhile: the evaluations of cond so far
  wj,           \* SpecWhile: the invocations of body so far
  wc0,          \* SpecWhile: init_cond_result
  wtrace,       \* SpecWhile: the invocations so far, in order
  wexc,         \* SpecWhile: whether an exception has left the function
  wref          \* SpecWhile: what py_defaults.while_stmt did

storeVars == <<store, assigned, lastAssigned, lastRead>>
boolVars == <<bvals, btree, bpc, bidx, bevals, bres>>
runVars == <<rcase, rpc, rtree, rgen, rtodo, rheap, rfn, rorig, rconv>>
passVars == <<pcase, ppc, ptree, pgen, ptodo>>
callVars == <<ccase, cpc, ctree, corig, cconv>>
scopeVars == <<scase, spc, sevs, sst>>
stageVars == <<gpc, gregistry, gwrappers, gfirst, gwrites, glast>>
isoVars == <<ipc, ivals, istack, isteps, ilast>>
parseVars == <<ecase, epc, etried, eres>>
namerVars == <<npc, ngen, nhist>>
visitVars == <<vcase, vpc, vstack, vbroken, vorig, vexc>>
opsVars == <<kpc, kscope, klast, kfreed>>
whileVars == <<wcase, wpc, wwho, wi, wj, wc0, wtrace, wexc, wref>>
vars == <<storeVars, boolVars, runVars, passVars, callVars, scopeVars, stageVars, isoVars, parseVars, namerVars, visitVars, opsVars, whileVars>>
notStore == <<boolVars, runVars, passVars, callVars, scopeVars, stageVars, isoVars, parseVars, namerVars, visitVars, opsVars, whileVars>>
notBool == <<storeVars, runVars, passVars, callVars, scopeVars, stageVars, isoVars, parseVars, namerVars, visitVars, opsVars, whileVars>>
notRun == <<storeVars, boolVars, passVars, callVars, scopeVars, stageVars, isoVars, parseVars, namerVars, visitVars, opsVars, whileVars>>
notPass == <<storeVars, boolVars, runVars, callVars, scopeVars, stageVars, isoVars, parseVars, namerVars, visitVars, opsVars, whileVars>>
notCall == <<storeVars, boolVars, runVars, passVars, scopeVars, stageVars, isoVars, parseVars, namerVars, visitVars, opsVars, whileVars>>
notScope == <<storeVars, boolVars, runVars, passVars, callVars, stageVars, isoVars, parseVars, namerVars, visitVars, opsVars, whileVars>>
notStage == <<storeVars, boolVars, runVars, passVars, callVars, scopeVars, isoVars, parseVars, namerVars, visitVars, opsVars, whileVars>>
notIso == <<storeVars, boolVars, runVars, passVars, callVars, scopeVars, stageVars, parseVars, namerVars, visitVars, opsVars, whileVars>>
notParse == <<storeVars, boolVars, runVars, passVars, callVars, scopeVars, stageVars, isoVars, namerVars, visitVars, opsVars, whileVars>>
notNamer == <<storeVars, boolVars, runVars, passVars, callVars, scopeVars, stageVars, isoVars, parseVars, visitVars, opsVars, whileVars>>
notVisit == <<storeVars, boolVars, runVars, passVars, callVars, scopeVars, stageVars, isoVars, parseVars, namerVars, opsVars, whileVars>>
notOps == <<storeVars, boolVars, runVars, passVars, callVars, scopeVars, stageVars, isoVars, parseVars, namerVars, visitVars, whileVars>>
notWhile == <<storeVars, boolVars, runVars, passVars, callVars, scopeVars, stageVars, isoVars, parseVars, namerVars, visitVars, opsVars>>

---------------------------------------------------------------------------
(* Values and outcomes *)

IntV(n) == [t |-> "int", n |-> n, s |-> <<>>, nm |-> ""]
BoolV(b) == [t |-> "bool", n |-> IF b THEN 1 ELSE 0, s |-> <<>>, nm |-> ""]
NoneV == [t |-> "none", n |-> 0, s |-> <<>>, nm |-> ""]
RefV(a) == [t |-> "ref", n |-> a, s |-> <<>>, nm |-> ""]
TupleV(s) == [t |-> "tuple", n |-> 0, s |-> s, nm |-> ""]

\* py_defaults.Undefined(name)
Undefined(name) == [t |-> "undef", n |-> 0, s |-> <<>>, nm |-> name]

\* py_defaults.is_undefined(value)
is_undefined(value) == value.t = "undef"

\* py_defaults.Variable(val, name), as a heap object
Variable(val, name) == [k |-> "Variable", val |-> val, name |-> name]

ListObj(elts) == [k |-> "list", val |-> elts, name |-> ""]

Ret(v) == [exc |-> "", v |-> v, msg |-> ""]
Raise(type, msg) == [exc |-> type, v |-> NoneV, msg |-> msg]

\* isinstance(value, Variable) for a value of the heap
IsVariable(heap, value) ==
  /\ value.t = "ref"
  /\ value.n \in DOMAIN heap
  /\ heap[value.n].k = "Variable"

---------------------------------------------------------------------------
(* overloads/py_defaults.py: init, assign, read *)

\* init(name): the new object; the caller appends it to the heap
init(name) == Variable(Undefined(name), name)

assign_dropped(heap, lhs, rhs) == heap

\* assign(lhs, rhs): lhs.val = rhs; return lhs
assign(heap, lhs, rhs) == [heap EXCEPT ![lhs].val = rhs]

\* read(var) with the interpreter's recursion limit as fuel: a chain of
\* Variables longer than the heap is a cycle, which ends in RecursionError.
RECURSIVE readFuel(_, _, _)
readFuel(heap, var, fuel) ==
  LET val == heap[var].val IN
  IF is_undefined(val)
    THEN Raise("PyctUnboundLocalError", val.nm)
    ELSE IF IsVariable(heap, val)
      THEN IF fuel = 0
             THEN Raise("RecursionError", "")
             ELSE readFuel(heap, val.n, fuel - 1)
      ELSE Ret(val)

read(heap, var) == readFuel(heap, var, Len(heap))

---------------------------------------------------------------------------
(* SpecStore: any sequence of init, assign and read on the default overload *)

MaxVars == 2
MaxInt == 2

Names == {"x", "y"}

NoRead == [h |-> 0, out |-> Ret(NoneV)]

\* the values a caller may hand to assign: plain values and storage handles
\* (the Variables pass emits overload.assign(target, n_target), and after the
\* Control-Flow pass n_target is itself a Variable)
StoreValues(heap) ==
  {IntV(n) : n \in 1..MaxInt} \cup {RefV(a) : a \in DOMAIN heap}

IdleBool ==
  /\ bvals = <<>>
  /\ btree = [k |-> "None"]
  /\ bpc = "idle"
  /\ bidx = 0
  /\ bevals = <<>>
  /\ bres = NoneV

IdleStore ==
  /\ store = <<>>
  /\ assigned = <<>>
  /\ lastAssigned = <<>>
  /\ lastRead = NoRead

NotRun == [call |-> Raise("NotRun", ""), probe |-> Raise("NotRun", "")]
NoFn == [orig |-> 0, gen |-> 0, conv |-> 0]

IdleRun ==
  /\ rcase = [fam |-> "idle"]
  /\ rpc = "idle"
  /\ rtree = [k |-> "Pass"]
  /\ rgen = {}
  /\ rtodo = <<>>
  /\ rheap = <<>>
  /\ rfn = NoFn
  /\ rorig = NotRun
  /\ rconv = NotRun

IdlePass ==
  /\ pcase = [fam |-> "idle"]
  /\ ppc = "idle"
  /\ ptree = [k |-> "Pass"]
  /\ pgen = {}
  /\ ptodo = <<>>

IdleCall ==
  /\ ccase = [fam |-> "idle"]
  /\ cpc = "idle"
  /\ ctree = [k |-> "Pass"]
  /\ corig = <<>>
  /\ cconv = <<>>

IdleScope ==
  /\ scase = [depth |-> 0]
  /\ spc = "idle"
  /\ sevs = <<>>
  /\ sst = [scopes |-> <<>>, scope |-> ""]

IdleStage ==
  /\ gpc = "idle"
  /\ gregistry = <<>>
  /\ gwrappers = <<>>
  /\ gfirst = <<>>
  /\ gwrites = <<>>
  /\ glast = [op |-> "none"]

IdleIso ==
  /\ ipc = "idle"
  /\ ivals = <<>>
  /\ istack = <<>>
  /\ isteps = 0
  /\ ilast = [op |-> "none"]

IdleParse ==
  /\ ecase = [kind |-> "none"]
  /\ epc = "idle"
  /\ etried = <<>>
  /\ eres = [k |-> "none"]

IdleNamer ==
  /\ npc = "idle"
  /\ ngen = {}
  /\ nhist = <<>>

IdleVisit ==
  /\ vcase = [fault |-> "idle"]
  /\ vpc = "idle"
  /\ vstack = <<>>
  /\ vbroken = {}
  /\ vorig = [type |-> "none"]
  /\ vexc = [type |-> "none"]

IdleOps ==
  /\ kpc = "idle"
  /\ kscope = [parent |-> ""]
  /\ klast = [op |-> "none"]
  /\ kfreed = {}

IdleWhile ==
  /\ wcase = [k |-> "none"]
  /\ wpc = "idle"
  /\ wwho = "none"
  /\ wi = 0
  /\ wj = 0
  /\ wc0 = FALSE
  /\ wtrace = <<>>
  /\ wexc = FALSE
  /\ wref = [k |-> "none"]

\* the specifications of the other components, at rest
IdleOthers == IdlePass /\ IdleCall /\ IdleScope /\ IdleStage /\ IdleIso /\ IdleParse /\ IdleNamer /\ IdleVisit /\ IdleOps /\ IdleWhile

InitStore == IdleStore /\ IdleBool /\ IdleRun /\ IdleOthers

StoreInit(name) ==
  /\ Len(store) < MaxVars
  /\ store' = Append(store, init(name))
  /\ assigned' = Append(assigned, FALSE)
  /\ lastAssigned' = Append(lastAssigned, NoneV)
  /\ lastRead' = NoRead
  /\ UNCHANGED notStore

StoreAssign(h, rhs) ==
  /\ rhs # RefV(h)
  /\ store' = assign(store, h, rhs)
  /\ assigned' = [assigned EXCEPT ![h] = TRUE]
  /\ lastAssigned' = [lastAssigned EXCEPT ![h] = rhs]
  /\ lastRead' = NoRead
  /\ UNCHANGED notStore

StoreRead(h) ==
  /\ lastRead' = [h |-> h, out |-> read(store, h)]
  /\ UNCHANGED <<store, assigned, lastAssigned>>
  /\ UNCHANGED notStore

NextStore ==
  \/ \E name \in Names : StoreInit(name)
  \/ \E h \in DOMAIN store : \E rhs \in StoreValues(store) : StoreAssign(h, rhs)
  \/ \E h \in DOMAIN store : StoreRead(h)

SpecStore == InitStore /\ [][NextStore]_vars

---------------------------------------------------------------------------
(* C1 *)

\* C1 (as claimed): a read raises PyctUnboundLocalError naming the handle's
\* variable if and only if no assign to the handle has happened since init;
\* after an assign, read never raises and returns the latest assigned value.
C1_ReadIffAssigned ==
  lastRead.h # 0 =>
    LET h == lastRead.h
        out == lastRead.out IN
    /\ (out = Raise("PyctUnboundLocalError", store[h].name)) <=> ~assigned[h]
    /\ assigned[h] => out = Ret(lastAssigned[h])

\* C1 (amended): a read of a never-assigned handle raises
\* PyctUnboundLocalError naming its variable; once an assign has happened and
\* the latest assigned value is not itself a storage handle, read does not
\* raise and returns that value; when the latest assigned value is a storage
\* handle, read yields what reading that handle yields.
C1_ReadAfterAssign ==
  lastRead.h # 0 =>
    LET h == lastRead.h
        out == lastRead.out
        last == lastAssigned[h] IN
    /\ ~assigned[h] => out = Raise("PyctUnboundLocalError", store[h].name)
    /\ (assigned[h] /\ last.t # "ref") => out = Ret(last)
    /\ (assigned[h] /\ last.t = "ref") =>
         \/ out = read(store, last.n)
         \/ out.exc = "RecursionError"

\* a read of a handle after two assigns of different plain values
C1_Witness ==
  /\ lastRead.h # 0
  /\ assigned[lastRead.h]
  /\ lastRead.out = Ret(IntV(2))
  /\ \E h \in DOMAIN store : ~assigned[h]

---------------------------------------------------------------------------
(* Truth and equality of Python values *)

\* bool(value), as `if x:` and `not x` test it
Truthy(value) ==
  CASE value.t \in {"int", "bool"} -> value.n # 0
    [] value.t = "none" -> FALSE
    [] value.t = "tuple" -> Len(value.s) > 0
    [] OTHER -> TRUE

\* a == b for numbers and booleans (True == 1, False == 0), else identity
PyEq(a, b) ==
  IF a.t \in {"int", "bool"} /\ b.t \in {"int", "bool"}
    THEN a.n = b.n
    ELSE a = b

---------------------------------------------------------------------------
(* The hooks an overload module exposes, queried by hasattr *)

PyDefaultsHooks ==
  {"call", "if_stmt", "while_stmt", "for_stmt", "and_", "or_", "not_",
   "init", "assign", "read"}

hasattr(module, hook) == hook \in module

---------------------------------------------------------------------------
(* transformers/virtualization/logical_ops.py *)

\* the expression of test_fn: a chain over the parameters, in order
BoolOp(op, n) ==
  [k |-> "BoolOp", op |-> op, values |-> [i \in 1..n |-> [k |-> "Name", id |-> i]]]

\* _make_lambda_nodes(lst): one `lambda: y` per node of lst
_make_lambda_nodes(lst) ==
  [i \in 1..Len(lst) |-> [k |-> "Lambda", body |-> lst[i]]]

\* _handle_boolop(node, func): overload.func(x, (operands,))
_handle_boolop(node, func) ==
  [k |-> "OvCall",
   func |-> func,
   x |-> node.values[1],
   operands |-> _make_lambda_nodes(Tail(node.values))]

\* visit_BoolOp(node)
visit_BoolOp(node, module) ==
  IF node.op = "And" /\ hasattr(module, "and_")
    THEN _handle_boolop(node, "and_")
    ELSE IF node.op = "Or" /\ hasattr(module, "or_")
      THEN _handle_boolop(node, "or_")
      ELSE node

---------------------------------------------------------------------------
(* overloads/py_defaults.py: and_, or_ *)

\* and_: `if x:` lets the loop run; or_: `if not x:` does
hook_enters(func, x) ==
  IF func = "and_" THEN Truthy(x) ELSE ~Truthy(x)

\* the value returned when x does not let the loop run
hook_skip_result(func) ==
  IF func = "and_" THEN BoolV(FALSE) ELSE BoolV(TRUE)

hook_never_stops(func, v) == FALSE

\* and_: `if not op(): return False`; or_: `if op(): return True`
hook_stops(func, v) ==
  IF func = "and_" THEN ~Truthy(v) ELSE Truthy(v)

\* the value returned from inside the loop
hook_stop_result(func) ==
  IF func = "and_" THEN BoolV(FALSE) ELSE BoolV(TRUE)

\* the value returned after the loop
hook_end_result(func) ==
  IF func = "and_" THEN BoolV(TRUE) ELSE BoolV(FALSE)

---------------------------------------------------------------------------
(* Python's own `a and b and ...` / `a or b or ...` *)

\* the position of the operand whose value the chain yields: the first falsy
\* one of an `and`, the first truthy one of an `or`, else the last
RECURSIVE DecidingFrom(_, _, _)
DecidingFrom(op, vals, i) ==
  IF i = Len(vals) THEN i
  ELSE IF (op = "And" /\ ~Truthy(vals[i])) \/ (op = "Or" /\ Truthy(vals[i]))
    THEN i
    ELSE DecidingFrom(op, vals, i + 1)

Deciding(op, vals) == DecidingFrom(op, vals, 1)

NativeBoolOp(op, vals) == vals[Deciding(op, vals)]

---------------------------------------------------------------------------
(* SpecBool: test_fn(x, y, ...) = x op y op ..., converted with the          *)
(* Logical-Operator pass under py_defaults, then called                      *)

MaxOperands == 3

BoolInputs == {BoolV(FALSE), BoolV(TRUE), IntV(0), IntV(2)}

ChainOp == IF btree.k = "BoolOp" THEN btree.op
           ELSE IF btree.func = "and_" THEN "And" ELSE "Or"

InitBool ==
  /\ IdleStore /\ IdleRun /\ IdleOthers
  /\ \E n \in 2..MaxOperands :
       /\ bvals \in [1..n -> BoolInputs]
       /\ \E op \in {"And", "Or"} : btree = BoolOp(op, n)
  /\ bpc = "source"
  /\ bidx = 0
  /\ bevals = <<>>
  /\ bres = NoneV

\* conversion.convert(test_fn, py_defaults, [logical_ops])
BoolConvert ==
  /\ bpc = "source"
  /\ btree' = visit_BoolOp(btree, PyDefaultsHooks)
  /\ bpc' = "converted"
  /\ UNCHANGED <<bvals, bidx, bevals, bres>>
  /\ UNCHANGED notBool

\* converted_fn(a, b, ...): the call expression evaluates its first argument,
\* builds the tuple of lambdas and enters the hook
BoolCall ==
  /\ bpc = "converted"
  /\ btree.k = "OvCall"
  /\ bevals' = Append(bevals, btree.x.id)
  /\ bpc' = "entered"
  /\ UNCHANGED <<bvals, btree, bidx, bres>>
  /\ UNCHANGED notBool

\* `if x:` (and_) / `if not x:` (or_)
BoolEnter ==
  /\ bpc = "entered"
  /\ IF hook_enters(btree.func, bvals[btree.x.id])
       THEN /\ bpc' = "loop"
            /\ bidx' = 1
            /\ bres' = bres
       ELSE /\ bpc' = "done"
            /\ bidx' = bidx
            /\ bres' = hook_skip_result(btree.func)
  /\ UNCHANGED <<bvals, btree, bevals>>
  /\ UNCHANGED notBool

\* one iteration of `for op in operands:`: op() runs the lambda's body
BoolLoop ==
  /\ bpc = "loop"
  /\ bidx <= Len(btree.operands)
  /\ LET operand == btree.operands[bidx].body.id IN
       /\ bevals' = Append(bevals, operand)
       /\ IF hook_stops(btree.func, bvals[operand])
            THEN /\ bpc' = "done"
                 /\ bres' = hook_stop_result(btree.func)
                 /\ bidx' = bidx
            ELSE /\ bpc' = "loop"
                 /\ bres' = bres
                 /\ bidx' = bidx + 1
  /\ UNCHANGED <<bvals, btree>>
  /\ UNCHANGED notBool

\* the loop is exhausted
BoolEnd ==
  /\ bpc = "loop"
  /\ bidx > Len(btree.operands)
  /\ bpc' = "done"
  /\ bres' = hook_end_result(btree.func)
  /\ UNCHANGED <<bvals, btree, bidx, bevals>>
  /\ UNCHANGED notBool

NextBool ==
  \/ BoolConvert
  \/ BoolCall
  \/ BoolEnter
  \/ BoolLoop
  \/ BoolEnd

SpecBool == InitBool /\ [][NextBool]_vars

---------------------------------------------------------------------------
(* C4 *)

\* C4: the converted boolean chain returns the same value as the original
\* chain for all inputs.
C4_SameValue ==
  bpc = "done" => PyEq(bres, NativeBoolOp(ChainOp, bvals))

---------------------------------------------------------------------------
(* C5 *)

\* C5: the hooks evaluate the operands strictly left to right, each one at
\* most once, never one after the operand that decides the result, and when
\* the call has returned every operand up to the deciding one exactly once.
C5_LazyLeftToRight ==
  bpc # "idle" =>
    LET d == Deciding(ChainOp, bvals) IN
    /\ Len(bevals) <= d
    /\ \A i \in 1..Len(bevals) : bevals[i] = i
    /\ bpc = "done" => Len(bevals) = d

\* x and y and foo() with x and y truthy: foo has run, once
C5_Witness ==
  /\ bpc = "done"
  /\ ChainOp = "And"
  /\ Len(bvals) = 3
  /\ Truthy(bvals[1]) /\ Truthy(bvals[2])
  /\ bevals = <<1, 2, 3>>

\* x and y and foo() with y falsy: foo has not run
C5_WitnessSkipped ==
  /\ bpc = "done"
  /\ ChainOp = "And"
  /\ Len(bvals) = 3
  /\ Truthy(bvals[1]) /\ ~Truthy(bvals[2])
  /\ bevals = <<1, 2>>

---------------------------------------------------------------------------
(* Syntax trees (gast nodes), as records tagged by k *)

Num(n) == [k |-> "Num", n |-> n]
Str(s) == [k |-> "Str", s |-> s]
Name(id) == [k |-> "Name", id |-> id]
BinOp(op, left, right) == [k |-> "BinOp", op |-> op, left |-> left, right |-> right]
Compare(op, left, right) == [k |-> "Compare", op |-> op, left |-> left, right |-> right]
List(elts) == [k |-> "List", elts |-> elts]
Tuple(elts) == [k |-> "Tuple", elts |-> elts]
Subscript(value, index) == [k |-> "Subscript", value |-> value, index |-> index]
Attribute(value, attr) == [k |-> "Attribute", value |-> value, attr |-> attr]
Call(func, args) == [k |-> "Call", func |-> func, args |-> args]
Assign(targets, value) == [k |-> "Assign", targets |-> targets, value |-> value]
AugAssign(target, value) == [k |-> "AugAssign", target |-> target, value |-> value]
Expr(value) == [k |-> "Expr", value |-> value]
Return(value) == [k |-> "Return", value |-> value]
If(test, body, orelse) == [k |-> "If", test |-> test, body |-> body, orelse |-> orelse]
For(target, iter, body, orelse) ==
  [k |-> "For", target |-> target, iter |-> iter, body |-> body, orelse |-> orelse]
FunctionDef(name, args, body) ==
  [k |-> "FunctionDef", name |-> name, args |-> args, body |-> body]
Pass == [k |-> "Pass"]
Nonlocal(names) == [k |-> "Nonlocal", names |-> names]
Global(names) == [k |-> "Global", names |-> names]
NoneLit == [k |-> "NameConstant"]

\* a visit method that raised: the exception leaves the pass and convert
VisitError_ignored(exc) == [k |-> "Pass"]

VisitError(exc) == [k |-> "VisitError", exc |-> exc]

\* templates.replace('overload.hook(args)')
OverloadCall(overload, hook, args) == Call(Attribute(Name(overload), hook), args)

\* is node the call overload.hook(...)
IsOverloadCall(node, overload, hook) ==
  /\ node.k = "Call"
  /\ node.func.k = "Attribute"
  /\ node.func.attr = hook
  /\ node.func.value.k = "Name"
  /\ node.func.value.id = overload

\* the names of a For target or of an assignment target: a Name or a
\* Tuple/List of Names
TargetNames(target) ==
  IF target.k = "Name" THEN <<target.id>>
  ELSE [i \in 1..Len(target.elts) |-> target.elts[i].id]

SeqToSet(seq) == {seq[i] : i \in 1..Len(seq)}

\* a set as a sequence, in the order iteration over a Python set happens to
\* produce
RECURSIVE SetToSeq(_)
SetToSeq(set) ==
  IF set = {} THEN <<>>
  ELSE LET x == CHOOSE y \in set : TRUE IN <<x>> \o SetToSeq(set \ {x})

---------------------------------------------------------------------------
(* core/naming.py: Namer.new_symbol *)

Suffixed(name_root, n) == name_root \o "_" \o ToString(n)

\* new_symbol(name_root, reserved_locals) with generated_names = generated:
\* name_root itself, else the first name_root_n that is neither reserved nor
\* generated before
new_symbol(name_root, reserved_locals, generated) ==
  LET taken == reserved_locals \cup generated IN
  IF name_root \notin taken THEN name_root
  ELSE LET n == CHOOSE i \in 1..(Cardinality(taken) + 1) :
                  /\ Suffixed(name_root, i) \notin taken
                  /\ \A j \in 1..(i - 1) : Suffixed(name_root, j) \in taken
       IN Suffixed(name_root, n)

---------------------------------------------------------------------------
(* transformers/virtualization/scoping.py: Scope *)

\* Scope(parent, func_name); parent is the func_name of the enclosing Scope,
\* "" for None
Scope(parent, func_name) ==
  [parent |-> parent, locals |-> {}, free |-> {}, nonlocals |-> {},
   globals |-> {}, func_name |-> func_name]

add_free(scope, var) == [scope EXCEPT !.free = @ \cup {var}]

add_local_keeps_free(scope, var) == [scope EXCEPT !.locals = @ \cup {var}]

add_local(scope, var) ==
  [scope EXCEPT !.free = @ \ {var}, !.locals = @ \cup {var}]

add_nonlocal(scope, var) ==
  [scope EXCEPT !.locals = @ \ {var}, !.nonlocals = @ \cup {var}]

add_global(scope, var) ==
  [scope EXCEPT !.locals = @ \ {var}, !.globals = @ \cup {var}]

is_local(scope, var) == var \in scope.locals
is_free(scope, var) == var \in scope.free
is_global(scope, var) == var \in scope.globals
is_nonlocal(scope, var) == var \in scope.nonlocals

\* Scope.should_virtualize(var), for the Scope named func_name in scopes
RECURSIVE should_virtualize(_, _, _)
should_virtualize(scopes, func_name, var) ==
  LET scope == scopes[func_name] IN
  IF is_local(scope, var) THEN TRUE
  ELSE IF is_nonlocal(scope, var) \/ is_free(scope, var)
    THEN scope.parent # "" /\ should_virtualize(scopes, scope.parent, var)
    ELSE FALSE

---------------------------------------------------------------------------
(* transformers/virtualization/scoping.py: ScopeTransformer *)

\* The walk of ScopeTransformer as the sequence of its calls on the current
\* scope, in visit order (generic_visit follows the field order of gast).
StoreEv(id) == [ev |-> "store", id |-> id, args |-> <<>>]
LoadEv(id) == [ev |-> "load", id |-> id, args |-> <<>>]
EnterEv(name, args) == [ev |-> "enter", id |-> name, args |-> args]
ExitEv(name) == [ev |-> "exit", id |-> name, args |-> <<>>]
NonlocalEv(id) == [ev |-> "nonlocal", id |-> id, args |-> <<>>]
GlobalEv(id) == [ev |-> "global", id |-> id, args |-> <<>>]

RECURSIVE ExprEvents(_), ExprsEvents(_), StmtEvents(_), BlockEvents(_)

\* visit of an expression: visit_Name on each Name, in field order
ExprEvents(e) ==
  CASE e.k = "Name" -> <<LoadEv(e.id)>>
    [] e.k \in {"BinOp", "Compare"} -> ExprEvents(e.left) \o ExprEvents(e.right)
    [] e.k \in {"List", "Tuple"} -> ExprsEvents(e.elts)
    [] e.k \in {"Subscript", "Attribute"} -> ExprEvents(e.value)
    [] e.k = "Call" -> ExprEvents(e.func) \o ExprsEvents(e.args)
    [] OTHER -> <<>>

ExprsEvents(es) ==
  IF Len(es) = 0 THEN <<>> ELSE ExprEvents(Head(es)) \o ExprsEvents(Tail(es))

\* the Store names of assignment targets, in order
TargetsEvents(targets) ==
  LET names == [i \in 1..Len(targets) |-> TargetNames(targets[i])]
      Flat[i \in 0..Len(names)] ==
        IF i = 0 THEN <<>> ELSE Flat[i - 1] \o names[i]
  IN [i \in 1..Len(Flat[Len(names)]) |-> StoreEv(Flat[Len(names)][i])]

\* visit_For calls generic_visit(node.iter): the children of iter are
\* visited, iter itself is not (a Name given as iter never reaches visit_Name)
IterEvents(iter) ==
  IF iter.k = "Name" THEN <<>> ELSE ExprEvents(iter)

StmtEvents(s) ==
  CASE s.k = "Assign" -> TargetsEvents(s.targets) \o ExprEvents(s.value)
    [] s.k = "AugAssign" -> <<StoreEv(s.target.id)>> \o ExprEvents(s.value)
    [] s.k \in {"Expr", "Return"} -> ExprEvents(s.value)
    [] s.k = "If" ->
         ExprEvents(s.test) \o BlockEvents(s.body) \o BlockEvents(s.orelse)
    [] s.k = "For" ->
         TargetsEvents(<<s.target>>) \o IterEvents(s.iter)
           \o BlockEvents(s.body) \o BlockEvents(s.orelse)
    [] s.k = "FunctionDef" ->
         <<EnterEv(s.name, s.args)>> \o BlockEvents(s.body) \o <<ExitEv(s.name)>>
    [] s.k = "Nonlocal" -> [i \in 1..Len(s.names) |-> NonlocalEv(s.names[i])]
    [] s.k = "Global" -> [i \in 1..Len(s.names) |-> GlobalEv(s.names[i])]
    [] OTHER -> <<>>

BlockEvents(stmts) ==
  IF Len(stmts) = 0 THEN <<>>
  ELSE StmtEvents(Head(stmts)) \o BlockEvents(Tail(stmts))

\* the state of the ScopeTransformer: self.scopes and self.scope ("" is None)
NoScopes == [scopes |-> <<>>, scope |-> ""]

\* _check_local(node, name)
_check_local(st, is_store, name) ==
  IF st.scope = "" \/ is_global(st.scopes[st.scope], name)
       \/ is_nonlocal(st.scopes[st.scope], name)
    THEN st
    ELSE IF is_store
      THEN [st EXCEPT !.scopes[st.scope] = add_local(@, name)]
      ELSE IF ~is_local(st.scopes[st.scope], name)
        THEN [st EXCEPT !.scopes[st.scope] = add_free(@, name)]
        ELSE st

\* add_local for each of args, in order
RECURSIVE add_locals(_, _)
add_locals(scope, args) ==
  IF Len(args) = 0 THEN scope
  ELSE add_locals(add_local(scope, Head(args)), Tail(args))

\* visit_FunctionDef, up to the visit of the body
ScopeEnter(st, name, args) ==
  LET outer == IF st.scope = "" THEN st.scopes
               ELSE [st.scopes EXCEPT ![st.scope] = add_local(@, name)]
      scope == add_locals(Scope(st.scope, name), args)
  IN [scopes |-> (name :> scope) @@ outer, scope |-> name]

\* visit_FunctionDef, after the visit of the body
ScopeExit_stays(st) == st

ScopeExit(st) ==
  LET parent == st.scopes[st.scope].parent IN
  [scopes |-> IF parent = "" THEN st.scopes
              ELSE [st.scopes EXCEPT ![parent] = add_local(@, st.scope)],
   scope |-> parent]

ScopeStep(st, ev) ==
  CASE ev.ev = "store" -> _check_local(st, TRUE, ev.id)
    [] ev.ev = "load" -> _check_local(st, FALSE, ev.id)
    [] ev.ev = "enter" -> ScopeEnter(st, ev.id, ev.args)
    [] ev.ev = "exit" -> ScopeExit(st)
    [] ev.ev = "nonlocal" -> [st EXCEPT !.scopes[st.scope] = add_nonlocal(@, ev.id)]
    [] ev.ev = "global" -> [st EXCEPT !.scopes[st.scope] = add_global(@, ev.id)]

RECURSIVE ScopeFold(_, _)
ScopeFold(st, evs) ==
  IF Len(evs) = 0 THEN st ELSE ScopeFold(ScopeStep(st, Head(evs)), Tail(evs))

\* ScopeTransformer(ctx).visit(node).scopes, keyed by function name
BuildScopes(node) == ScopeFold(NoScopes, StmtEvents(node)).scopes

---------------------------------------------------------------------------
(* transformers/virtualization/variables.py: VariableTransformer *)

\* A statement visitor returns [out |-> the statements replacing the node,
\* gen |-> the namer's generated_names afterwards].

RECURSIVE VarExpr(_, _, _, _), VarExprs(_, _, _, _)

\* visit_Name(node), in the Scope named scope
var_visit_Name(node, scopes, scope, cfg) ==
  IF ~hasattr(cfg.module, "read") THEN node
  ELSE IF should_virtualize(scopes, scope, node.id)
    THEN OverloadCall(cfg.symbol_name, "read", <<Name(node.id)>>)
    ELSE node

\* visit(node) for an expression: generic_visit, with visit_Name on Names
VarExpr(e, scopes, scope, cfg) ==
  CASE e.k = "Name" -> var_visit_Name(e, scopes, scope, cfg)
    [] e.k \in {"BinOp", "Compare"} ->
         [e EXCEPT !.left = VarExpr(@, scopes, scope, cfg),
                   !.right = VarExpr(@, scopes, scope, cfg)]
    [] e.k \in {"List", "Tuple"} ->
         [e EXCEPT !.elts = VarExprs(@, scopes, scope, cfg)]
    [] e.k \in {"Subscript", "Attribute"} ->
         [e EXCEPT !.value = VarExpr(@, scopes, scope, cfg)]
    [] e.k = "Call" ->
         [e EXCEPT !.func = VarExpr(@, scopes, scope, cfg),
                   !.args = VarExprs(@, scopes, scope, cfg)]
    [] OTHER -> e

VarExprs(es, scopes, scope, cfg) ==
  [i \in 1..Len(es) |-> VarExpr(es[i], scopes, scope, cfg)]

\* new_symbol for each of names in turn, each reserving `reserved`
new_symbols_forgotten(names, reserved, generated) ==
  [names |-> [i \in 1..Len(names) |-> new_symbol(names[i], reserved, generated)],
   gen |-> generated]

RECURSIVE new_symbols(_, _, _)
new_symbols(names, reserved, generated) ==
  IF Len(names) = 0 THEN [names |-> <<>>, gen |-> generated]
  ELSE LET n == new_symbol(Head(names), reserved, generated)
           rest == new_symbols(Tail(names), reserved, generated \cup {n})
       IN [names |-> <<n>> \o rest.names, gen |-> rest.gen]

\* visit_Assign(node)
var_visit_Assign(node, scopes, scope, cfg) ==
  LET rhs == VarExpr(node.value, scopes, scope, cfg) IN
  IF node.targets[1].k # "Name"
    THEN <<VisitError("AttributeError")>>
    ELSE LET lhs == node.targets[1].id IN
         IF ~should_virtualize(scopes, scope, lhs)
           THEN <<[node EXCEPT !.value = rhs]>>
           ELSE <<Expr(OverloadCall(cfg.symbol_name, "assign", <<Name(lhs), rhs>>))>>

target_assigns_none(targets, n_target, cfg) == <<>>

\* _make_target_assign, and the single-target template of visit_For
target_assigns(targets, n_target, cfg) ==
  IF Len(targets) > 1
    THEN [i \in 1..Len(targets) |->
            Expr(OverloadCall(cfg.symbol_name, "assign",
                   <<Name(targets[i]), Subscript(Name(n_target), i - 1)>>))]
    ELSE <<Expr(OverloadCall(cfg.symbol_name, "assign",
                  <<Name(targets[1]), Name(n_target)>>))>>

\* the inits of visit_FunctionDef: lhs = overload.init(lhs_name)
init_nodes_none(locals, cfg) == <<>>

init_nodes(locals, cfg) ==
  LET vars_ == SetToSeq(locals) IN
  [i \in 1..Len(vars_) |->
     Assign(<<Name(vars_[i])>>, OverloadCall(cfg.symbol_name, "init", <<Str(vars_[i])>>))]

\* the arg_nodes of visit_FunctionDef: overload.assign(lhs, rhs)
arg_nodes(arg_names, n_arg_names, cfg) ==
  [i \in 1..Len(arg_names) |->
     Expr(OverloadCall(cfg.symbol_name, "assign",
            <<Name(arg_names[i]), Name(n_arg_names[i])>>))]

RECURSIVE VarStmt(_, _, _, _, _), VarBlock(_, _, _, _, _)

\* visit_FunctionDef(node)
var_visit_FunctionDef(node, scopes, cfg, gen) ==
  LET scope == scopes[node.name]
      n_args == new_symbols(node.args, SeqToSet(node.args), gen)
      body == VarBlock(node.body, scopes, node.name, cfg, n_args.gen)
      inner == init_nodes(scope.locals, cfg)
                 \o arg_nodes(node.args, n_args.names, cfg) \o body.out
  IN IF scope.parent # "" /\ is_local(scopes[scope.parent], node.name)
       THEN LET new_fun_name == new_symbol(node.name, {node.name}, body.gen) IN
            [out |-> <<FunctionDef(new_fun_name, n_args.names, inner),
                       Expr(OverloadCall(cfg.symbol_name, "assign",
                              <<Name(node.name), Name(new_fun_name)>>))>>,
             gen |-> body.gen \cup {new_fun_name}]
       ELSE [out |-> <<FunctionDef(node.name, n_args.names, inner)>>,
             gen |-> body.gen]

\* visit_For(node)
var_visit_For(node, scopes, scope, cfg, gen) ==
  LET iter == VarExpr(node.iter, scopes, scope, cfg)
      body == VarBlock(node.body, scopes, scope, cfg, gen)
      orelse == VarBlock(node.orelse, scopes, scope, cfg, body.gen)
  IN IF node.target.k \notin {"Tuple", "List", "Name"}
       THEN [out |-> <<VisitError("ValueError")>>, gen |-> orelse.gen]
       ELSE LET targets == TargetNames(node.target)
                n_target == new_symbol("n_target", SeqToSet(targets), orelse.gen)
            IN [out |-> <<For(Name(n_target), iter,
                              target_assigns(targets, n_target, cfg) \o body.out,
                              orelse.out)>>,
                gen |-> orelse.gen \cup {n_target}]

\* visit(node) for a statement, in the Scope named scope
VarStmt(s, scopes, scope, cfg, gen) ==
  CASE s.k = "FunctionDef" -> var_visit_FunctionDef(s, scopes, cfg, gen)
    [] s.k = "Assign" ->
         [out |-> var_visit_Assign(s, scopes, scope, cfg), gen |-> gen]
    [] s.k = "AugAssign" ->
         [out |-> <<VisitError("NotImplementedError")>>, gen |-> gen]
    [] s.k = "For" -> var_visit_For(s, scopes, scope, cfg, gen)
    [] s.k \in {"Expr", "Return"} ->
         [out |-> <<[s EXCEPT !.value = VarExpr(@, scopes, scope, cfg)]>>,
          gen |-> gen]
    [] s.k = "If" ->
         LET test == VarExpr(s.test, scopes, scope, cfg)
             body == VarBlock(s.body, scopes, scope, cfg, gen)
             orelse == VarBlock(s.orelse, scopes, scope, cfg, body.gen)
         IN [out |-> <<If(test, body.out, orelse.out)>>, gen |-> orelse.gen]
    [] OTHER -> [out |-> <<s>>, gen |-> gen]

\* visit_block(nodes)
VarBlock(stmts, scopes, scope, cfg, gen) ==
  IF Len(stmts) = 0 THEN [out |-> <<>>, gen |-> gen]
  ELSE LET first == VarStmt(Head(stmts), scopes, scope, cfg, gen)
           rest == VarBlock(Tail(stmts), scopes, scope, cfg, first.gen)
       IN [out |-> first.out \o rest.out, gen |-> rest.gen]

\* variables.transform(node, ctx, overload) on the function definition node
variables_transform(node, cfg, gen) ==
  VarStmt(node, BuildScopes(node), "", cfg, gen)

---------------------------------------------------------------------------
(* analysis/activity.py: the names a block modifies (BODY_SCOPE.modified) *)

RECURSIVE Modified(_, _)
Modified(stmts, cfg) ==
  IF Len(stmts) = 0 THEN {}
  ELSE LET s == Head(stmts)
           here ==
             CASE s.k = "Assign" ->
                    UNION {SeqToSet(TargetNames(s.targets[i])) : i \in 1..Len(s.targets)}
               [] s.k = "AugAssign" -> {s.target.id}
               [] s.k = "Expr" ->
                    IF IsOverloadCall(s.value, cfg.symbol_name, "assign")
                      THEN {s.value.args[1].id} ELSE {}
               [] s.k = "If" -> Modified(s.body, cfg) \cup Modified(s.orelse, cfg)
               [] s.k = "For" ->
                    SeqToSet(TargetNames(s.target)) \cup Modified(s.body, cfg)
                      \cup Modified(s.orelse, cfg)
               [] OTHER -> {}
       IN here \cup Modified(Tail(stmts), cfg)

---------------------------------------------------------------------------
(* transformers/virtualization/control_flow.py: ControlFlowTransformer *)

\* (local_writes,): the modified names, as loads
local_writes(names) ==
  LET seq == SetToSeq(names) IN Tuple([i \in 1..Len(seq) |-> Name(seq[i])])

OrPass(stmts) == IF Len(stmts) = 0 THEN <<Pass>> ELSE stmts

RECURSIVE CfStmt(_, _, _), CfBlock(_, _, _)

\* visit_If(node)
cf_visit_If(node, cfg, gen) ==
  LET modified_in_cond == Modified(node.body, cfg) \cup Modified(node.orelse, cfg)
      body == CfBlock(node.body, cfg, gen)
      orelse == CfBlock(node.orelse, cfg, body.gen)
  IN IF ~hasattr(cfg.module, "if_stmt")
       THEN [out |-> <<If(node.test, body.out, orelse.out)>>, gen |-> orelse.gen]
       ELSE LET test_name == new_symbol("if_test", {}, orelse.gen)
                body_name == new_symbol("if_body", {}, orelse.gen \cup {test_name})
                orelse_name == new_symbol("if_orelse", {},
                                 orelse.gen \cup {test_name, body_name})
            IN [out |->
                  <<FunctionDef(test_name, <<>>, <<Return(node.test)>>),
                    FunctionDef(body_name, <<>>, body.out),
                    FunctionDef(orelse_name, <<>>, OrPass(orelse.out)),
                    Expr(OverloadCall(cfg.symbol_name, "if_stmt",
                           <<Name(test_name), Name(body_name), Name(orelse_name),
                             local_writes(modified_in_cond)>>))>>,
                gen |-> orelse.gen \cup {test_name, body_name, orelse_name}]

target_inits_none(targets, cfg) == <<>>

\* _make_target_init(target, overload), for each target
target_inits(targets, cfg) ==
  [i \in 1..Len(targets) |->
     Assign(<<Name(targets[i])>>,
            OverloadCall(cfg.symbol_name, "init", <<Str(targets[i])>>))]

\* visit_For(node)
cf_visit_For(node, cfg, gen) ==
  LET modified_in_cond == Modified(node.body, cfg) \cup Modified(node.orelse, cfg)
      body == CfBlock(node.body, cfg, gen)
      orelse == CfBlock(node.orelse, cfg, body.gen)
  IN IF ~hasattr(cfg.module, "for_stmt")
       THEN [out |-> <<For(node.target, node.iter, body.out, orelse.out)>>,
             gen |-> orelse.gen]
       ELSE IF node.target.k \notin {"Tuple", "List", "Name"}
         THEN [out |-> <<VisitError("ValueError")>>, gen |-> orelse.gen]
         ELSE LET body_name == new_symbol("for_body", {}, orelse.gen)
                  orelse_name == new_symbol("for_orelse", {},
                                   orelse.gen \cup {body_name})
              IN [out |->
                    target_inits(TargetNames(node.target), cfg) \o
                    <<FunctionDef(body_name, <<>>, body.out),
                      FunctionDef(orelse_name, <<>>, OrPass(orelse.out)),
                      Expr(OverloadCall(cfg.symbol_name, "for_stmt",
                             <<node.target, node.iter, Name(body_name),
                               Name(orelse_name), local_writes(modified_in_cond)>>))>>,
                  gen |-> orelse.gen \cup {body_name, orelse_name}]

\* visit(node) for a statement
CfStmt(s, cfg, gen) ==
  CASE s.k = "If" -> cf_visit_If(s, cfg, gen)
    [] s.k = "For" -> cf_visit_For(s, cfg, gen)
    [] s.k = "FunctionDef" ->
         LET body == CfBlock(s.body, cfg, gen) IN
         [out |-> <<[s EXCEPT !.body = body.out]>>, gen |-> body.gen]
    [] OTHER -> [out |-> <<s>>, gen |-> gen]

CfBlock(stmts, cfg, gen) ==
  IF Len(stmts) = 0 THEN [out |-> <<>>, gen |-> gen]
  ELSE LET first == CfStmt(Head(stmts), cfg, gen)
           rest == CfBlock(Tail(stmts), cfg, first.gen)
       IN [out |-> first.out \o rest.out, gen |-> rest.gen]

\* control_flow.transform(node, ctx, overload) on the function definition node
control_flow_transform(node, cfg, gen) == CfStmt(node, cfg, gen)

---------------------------------------------------------------------------
(* transformers/virtualization/functions.py: FunctionCallTransformer.  A   *)
(* call with keywords carries them in a field `keywords`, a sequence of    *)
(* keyword(arg, value) whose arg is "" for a `**` operand; a `*` operand   *)
(* is a Starred node among the args.                                       *)

Starred(value) == [k |-> "Starred", value |-> value]
keyword(arg, value) == [arg |-> arg, value |-> value]
CallKw(func, args, keywords) ==
  [k |-> "Call", func |-> func, args |-> args, keywords |-> keywords]
Dict(keys, values) == [k |-> "Dict", keys |-> keys, values |-> values]

\* node.keywords of a Call node
KeywordsOf(node) == IF "keywords" \in DOMAIN node THEN node.keywords ELSE <<>>

\* ast_util.keywords_to_dict(keywords): the literal {'arg': value, ...}
keywords_to_dict(keywords) ==
  Dict([i \in 1..Len(keywords) |-> Str(keywords[i].arg)],
       [i \in 1..Len(keywords) |-> keywords[i].value])

is_overload_call_never(node, cfg) == FALSE

\* is_overload_call(node)
is_overload_call(node, cfg) ==
  /\ node.func.k = "Attribute"
  /\ node.func.value.k = "Name"
  /\ node.func.value.id = cfg.symbol_name

\* visit_Call(node), after generic_visit
func_visit_Call(node, cfg) ==
  IF ~hasattr(cfg.module, "call") THEN node
  ELSE IF is_overload_call(node, cfg) THEN node
  ELSE
    LET starred == SelectSeq(node.args, LAMBDA a : a.k = "Starred")
        normal_args == SelectSeq(node.args, LAMBDA a : a.k # "Starred")
        dstar == SelectSeq(KeywordsOf(node), LAMBDA kw : kw.arg = "")
        normal_keywords == SelectSeq(KeywordsOf(node), LAMBDA kw : kw.arg # "")
        args == IF Len(starred) = 0 THEN Tuple(normal_args)
                ELSE BinOp("Add", Tuple(normal_args),
                           Call(Name("tuple"), <<starred[1].value>>))
        kwargs == IF Len(dstar) = 0 THEN keywords_to_dict(normal_keywords)
                  ELSE CallKw(Name("dict"), <<dstar[1].value>>,
                              <<keyword("", keywords_to_dict(normal_keywords))>>)
    IN IF Len(starred) > 1 \/ Len(dstar) > 1
         THEN VisitError("AssertionError")
         ELSE OverloadCall(cfg.symbol_name, "call", <<node.func, args, kwargs>>)

RECURSIVE FuncExpr(_, _), FuncExprs(_, _), FuncKeywords(_, _)

\* visit(node) for an expression: generic_visit, then visit_Call on a Call
FuncExpr(e, cfg) ==
  CASE e.k \in {"BinOp", "Compare"} ->
         [e EXCEPT !.left = FuncExpr(@, cfg), !.right = FuncExpr(@, cfg)]
    [] e.k \in {"List", "Tuple"} -> [e EXCEPT !.elts = FuncExprs(@, cfg)]
    [] e.k \in {"Subscript", "Attribute", "Starred"} ->
         [e EXCEPT !.value = FuncExpr(@, cfg)]
    [] e.k = "Call" /\ "keywords" \in DOMAIN e ->
         func_visit_Call([e EXCEPT !.func = FuncExpr(@, cfg),
                                   !.args = FuncExprs(@, cfg),
                                   !.keywords = FuncKeywords(@, cfg)], cfg)
    [] e.k = "Call" /\ "keywords" \notin DOMAIN e ->
         func_visit_Call([e EXCEPT !.func = FuncExpr(@, cfg),
                                   !.args = FuncExprs(@, cfg)], cfg)
    [] OTHER -> e

FuncExprs(es, cfg) == [i \in 1..Len(es) |-> FuncExpr(es[i], cfg)]

FuncKeywords(kws, cfg) ==
  [i \in 1..Len(kws) |-> [kws[i] EXCEPT !.value = FuncExpr(@, cfg)]]

RECURSIVE FuncBlock(_, _)

\* visit(node) for a statement: generic_visit
FuncStmt(s, cfg) ==
  CASE s.k \in {"Assign", "Expr", "Return"} -> [s EXCEPT !.value = FuncExpr(@, cfg)]
    [] s.k = "If" ->
         [s EXCEPT !.test = FuncExpr(@, cfg), !.body = FuncBlock(@, cfg),
                   !.orelse = FuncBlock(@, cfg)]
    [] s.k = "For" ->
         [s EXCEPT !.iter = FuncExpr(@, cfg), !.body = FuncBlock(@, cfg),
                   !.orelse = FuncBlock(@, cfg)]
    [] s.k = "FunctionDef" -> [s EXCEPT !.body = FuncBlock(@, cfg)]
    [] OTHER -> s

FuncBlock(stmts, cfg) == [i \in 1..Len(stmts) |-> FuncStmt(stmts[i], cfg)]

\* functions.transform(node, ctx, overload)
functions_transform(node, cfg, gen) ==
  [out |-> <<FuncStmt(node, cfg)>>, gen |-> gen]

---------------------------------------------------------------------------
(* The Python runtime the original and the converted function run on.     *)
(* The heap also holds frames [k |-> "Frame", vars, closure, globals] and  *)
(* function objects [k |-> "Func", def, freevars, cells, globals].  A      *)
(* frame's vars maps each local name of its function to a value or to     *)
(* Unbound; a cell is the address of the frame whose vars holds the       *)
(* variable; a module is a frame that is its own globals.  A step of the  *)
(* interpreter yields [h |-> heap, exc, msg, v, ret]: ret says a return   *)
(* statement ran.                                                          *)

StrV(s) == [t |-> "str", n |-> 0, s |-> <<>>, nm |-> s]
ModuleV(name) == [t |-> "module", n |-> 0, s |-> <<>>, nm |-> name]
HookV(hook) == [t |-> "hook", n |-> 0, s |-> <<>>, nm |-> hook]
BuiltinV(name) == [t |-> "builtin", n |-> 0, s |-> <<>>, nm |-> name]
MethodV(a, attr) == [t |-> "method", n |-> a, s |-> <<>>, nm |-> attr]
Unbound == [t |-> "unbound", n |-> 0, s |-> <<>>, nm |-> ""]

NoCells == [x \in {} |-> 0]

Frame(names, closure, globals) ==
  [k |-> "Frame", vars |-> [x \in names |-> Unbound], closure |-> closure,
   globals |-> globals]
Func(def, freevars, cells, globals) ==
  [k |-> "Func", def |-> def, freevars |-> freevars, cells |-> cells,
   globals |-> globals]

Ok(h, v) == [h |-> h, exc |-> "", msg |-> "", v |-> v, ret |-> FALSE]
Err(h, exc, msg) == [h |-> h, exc |-> exc, msg |-> msg, v |-> NoneV, ret |-> FALSE]
Returned(r) == [r EXCEPT !.ret = TRUE]
OfOutcome(h, out) ==
  [h |-> h, exc |-> out.exc, msg |-> out.msg, v |-> out.v, ret |-> FALSE]

Builtins == {"range"}

\* the names a block stores, nested function bodies excluded
RECURSIVE Stored(_)
Stored(stmts) ==
  IF Len(stmts) = 0 THEN {}
  ELSE LET s == Head(stmts)
           here ==
             CASE s.k = "Assign" ->
                    UNION {SeqToSet(TargetNames(s.targets[i])) : i \in 1..Len(s.targets)}
               [] s.k = "AugAssign" -> {s.target.id}
               [] s.k = "FunctionDef" -> {s.name}
               [] s.k = "If" -> Stored(s.body) \cup Stored(s.orelse)
               [] s.k = "For" ->
                    SeqToSet(TargetNames(s.target)) \cup Stored(s.body)
                      \cup Stored(s.orelse)
               [] OTHER -> {}
       IN here \cup Stored(Tail(stmts))

\* the names a block declares nonlocal
RECURSIVE DeclaredNonlocal(_)
DeclaredNonlocal(stmts) ==
  IF Len(stmts) = 0 THEN {}
  ELSE LET s == Head(stmts)
           here ==
             CASE s.k = "Nonlocal" -> SeqToSet(s.names)
               [] s.k \in {"If", "For"} ->
                    DeclaredNonlocal(s.body) \cup DeclaredNonlocal(s.orelse)
               [] OTHER -> {}
       IN here \cup DeclaredNonlocal(Tail(stmts))

\* the names the compiler makes local to a function (co_varnames and
\* co_cellvars): its parameters and the names its body stores, unless
\* declared nonlocal
PyLocalNames(def) ==
  (SeqToSet(def.args) \cup Stored(def.body)) \ DeclaredNonlocal(def.body)

ExprNames(e) == {ExprEvents(e)[i].id : i \in 1..Len(ExprEvents(e))}

\* the names a block uses that its function must find outside itself when
\* they are not its locals: its own loads and stores, and what the
\* functions nested in it leave unresolved
RECURSIVE Referenced(_)
Referenced(stmts) ==
  IF Len(stmts) = 0 THEN {}
  ELSE LET s == Head(stmts)
           here ==
             CASE s.k \in {"Assign", "AugAssign", "Expr", "Return"} ->
                    ExprNames(s.value)
               [] s.k = "If" ->
                    ExprNames(s.test) \cup Referenced(s.body) \cup Referenced(s.orelse)
               [] s.k = "For" ->
                    ExprNames(s.iter) \cup Referenced(s.body) \cup Referenced(s.orelse)
               [] s.k = "FunctionDef" -> Referenced(s.body) \ PyLocalNames(s)
               [] OTHER -> {}
       IN here \cup Stored(<<s>>) \cup DeclaredNonlocal(<<s>>)
            \cup Referenced(Tail(stmts))

\* code.co_freevars of the function def compiled where the names `visible`
\* are variables of enclosing functions
co_freevars(def, visible) ==
  SetToSeq((Referenced(def.body) \ PyLocalNames(def)) \cap visible)

IsModule(h, fr) == h[fr].globals = fr

\* LOAD_FAST, LOAD_DEREF, LOAD_GLOBAL of name id in frame fr
Lookup(h, fr, id) ==
  LET g == h[fr].globals IN
  IF ~IsModule(h, fr) /\ id \in DOMAIN h[fr].vars
    THEN IF h[fr].vars[id] = Unbound THEN Err(h, "UnboundLocalError", id)
         ELSE Ok(h, h[fr].vars[id])
  ELSE IF id \in DOMAIN h[fr].closure
    THEN IF h[h[fr].closure[id]].vars[id] = Unbound THEN Err(h, "NameError", id)
         ELSE Ok(h, h[h[fr].closure[id]].vars[id])
  ELSE IF id \in DOMAIN h[g].vars /\ h[g].vars[id] # Unbound
    THEN Ok(h, h[g].vars[id])
  ELSE IF id \in Builtins THEN Ok(h, BuiltinV(id))
  ELSE Err(h, "NameError", id)

\* STORE_FAST, STORE_DEREF: a store binds a local of the running frame, or
\* the cell of a name declared nonlocal
StoreName(h, fr, id, v) ==
  IF id \in DOMAIN h[fr].vars THEN [h EXCEPT ![fr].vars[id] = v]
  ELSE [h EXCEPT ![h[fr].closure[id]].vars[id] = v]

Alloc(h, obj) == Append(h, obj)

IsKind(h, v, kind) == v.t = "ref" /\ h[v.n].k = kind

\* len(x) and x[i] of a tuple, a range or a list; Variable.__getitem__
\* (py_defaults.py:117) forwards to its value
IsSeq(h, v) == v.t = "tuple" \/ IsKind(h, v, "list")
Items(h, v) == IF v.t = "tuple" THEN v.s ELSE h[v.n].val

RECURSIVE GetItem(_, _, _, _)
GetItem(h, v, i, fuel) ==
  IF IsSeq(h, v)
    THEN IF i + 1 \in 1..Len(Items(h, v))
           THEN Ok(h, Items(h, v)[i + 1]) ELSE Err(h, "IndexError", "")
  ELSE IF IsKind(h, v, "Variable") /\ fuel > 0
    THEN GetItem(h, h[v.n].val, i, fuel - 1)
    ELSE Err(h, "TypeError", "")

\* range(n) of the builtins: the sequence 0 .. n-1
range(n) == TupleV([i \in 1..(IF n > 0 THEN n ELSE 0) |-> IntV(i - 1)])

\* a returned value without its addresses, so that the results of two runs
\* can be compared
RECURSIVE Reify(_, _, _)
Reify(h, v, fuel) ==
  IF v.t = "tuple"
    THEN [v EXCEPT !.s = [i \in 1..Len(v.s) |-> Reify(h, v.s[i], fuel)]]
  ELSE IF v.t # "ref" \/ fuel = 0 THEN v
  ELSE LET o == h[v.n] IN
    CASE o.k = "list" ->
           [t |-> "list", n |-> 0, nm |-> "",
            s |-> [i \in 1..Len(o.val) |-> Reify(h, o.val[i], fuel - 1)]]
      [] o.k = "Variable" ->
           [t |-> "Variable", n |-> 0, nm |-> o.name,
            s |-> <<Reify(h, o.val, fuel - 1)>>]
      [] o.k = "Func" -> [t |-> "function", n |-> 0, nm |-> o.def.name, s |-> <<>>]
      [] OTHER -> [t |-> "object", n |-> 0, nm |-> "", s |-> <<>>]

Outcome(r) ==
  IF r.exc # "" THEN Raise(r.exc, r.msg) ELSE Ret(Reify(r.h, r.v, Len(r.h)))

---------------------------------------------------------------------------
(* Evaluation of expressions and statements, and the default hooks        *)
(* if_stmt and for_stmt (overloads/py_defaults.py) that call back into it *)

\* obj.val = v: a Variable takes the value (assign of py_defaults.py:128 is
\* this statement), a function object takes any attribute, another object
\* has no attribute val to set
SetVal(h, obj, v) ==
  IF IsKind(h, obj, "Variable") THEN Ok(assign(h, obj.n, v), NoneV)
  ELSE IF IsKind(h, obj, "Func") THEN Ok(h, NoneV)
  ELSE Err(h, "AttributeError", "val")

\* the cells of a function object, by free-variable name
Closure(f) ==
  [x \in SeqToSet(f.freevars) |->
     f.cells[CHOOSE i \in 1..Len(f.freevars) : f.freevars[i] = x]]

\* MAKE_FUNCTION for the def statement s run in frame fr: the cells come
\* from the running frame's locals and from its own closure
MakeFunction(h, fr, s) ==
  LET visible == IF IsModule(h, fr) THEN {}
                 ELSE DOMAIN h[fr].vars \cup DOMAIN h[fr].closure
      freevars == co_freevars(s, visible)
  IN Func(s, freevars,
          [i \in 1..Len(freevars) |->
             IF freevars[i] \in DOMAIN h[fr].vars THEN fr
             ELSE h[fr].closure[freevars[i]]],
          h[fr].globals)

\* r, or what follows it when r neither raised nor returned
Then(r, Rest(_)) == IF r.exc # "" \/ r.ret THEN r ELSE Rest(r)

\* the outcome of a call whose body ended as r: return without a value is
\* return None
Finish(r) == IF r.exc # "" THEN r ELSE Ok(r.h, IF r.ret THEN r.v ELSE NoneV)

\* the subexpressions an expression evaluates first, in evaluation order
Operands(e) ==
  CASE e.k \in {"BinOp", "Compare"} -> <<e.left, e.right>>
    [] e.k \in {"Tuple", "List"} -> e.elts
    [] e.k \in {"Subscript", "Attribute"} -> <<e.value>>
    [] e.k = "Call" -> <<e.func>> \o e.args

\* left op right on integers
Arith(h, op, left, right) ==
  IF left.t # "int" \/ right.t # "int" THEN Err(h, "TypeError", op)
  ELSE CASE op = "Add" -> Ok(h, IntV(left.n + right.n))
         [] op = "Sub" -> Ok(h, IntV(left.n - right.n))
         [] op = "Lt" -> Ok(h, BoolV(left.n < right.n))

\* value.attr: a hook of the overload module, or the append of a list
GetAttr(h, value, attr) ==
  IF value.t = "module" /\ attr \in PyDefaultsHooks THEN Ok(h, HookV(attr))
  ELSE IF IsKind(h, value, "list") /\ attr = "append" THEN Ok(h, MethodV(value.n, attr))
  ELSE Err(h, "AttributeError", attr)

\* the expression a statement evaluates first
StmtExpr(s) ==
  CASE s.k \in {"Assign", "Expr", "Return"} -> s.value
    [] s.k = "AugAssign" -> BinOp("Add", s.target, s.value)
    [] s.k = "If" -> s.test
    [] s.k = "For" -> s.iter

\* the stores of one assignment target: a name, or a tuple of names that
\* unpacks a sequence of the same length
AssignTarget(h, fr, target, v) ==
  IF target.k = "Name" THEN Ok(StoreName(h, fr, target.id, v), NoneV)
  ELSE IF ~IsSeq(h, v) THEN Err(h, "TypeError", "unpack")
  ELSE IF Len(Items(h, v)) # Len(target.elts) THEN Err(h, "ValueError", "unpack")
  ELSE LET F[i \in 0..Len(target.elts)] ==
             IF i = 0 THEN h ELSE StoreName(F[i - 1], fr, target.elts[i].id, Items(h, v)[i])
       IN Ok(F[Len(target.elts)], NoneV)

\* targets[1] = targets[2] = ... = v, left to right
RECURSIVE AssignTargets(_, _, _, _)
AssignTargets(h, fr, targets, v) ==
  IF Len(targets) = 0 THEN Ok(h, NoneV)
  ELSE Then(AssignTarget(h, fr, Head(targets), v),
            LAMBDA r : AssignTargets(r.h, fr, Tail(targets), v))

RECURSIVE EvalExpr(_, _, _), EvalExprs(_, _, _), Combine(_, _, _), Apply(_, _, _),
          CallFn(_, _, _), if_stmt(_, _, _, _), for_stmt(_, _, _, _, _, _, _),
          ExecStmt(_, _, _), AfterExpr(_, _, _, _), ExecBlock(_, _, _),
          ExecFor(_, _, _, _, _)

\* the values of es, left to right, as a tuple
EvalExprs(h, fr, es) ==
  IF Len(es) = 0 THEN Ok(h, TupleV(<<>>))
  ELSE Then(EvalExpr(h, fr, Head(es)), LAMBDA r1 :
         Then(EvalExprs(r1.h, fr, Tail(es)), LAMBDA r2 :
           Ok(r2.h, TupleV(<<r1.v>> \o r2.v.s))))

EvalExpr(h, fr, e) ==
  CASE e.k = "Num" -> Ok(h, IntV(e.n))
    [] e.k = "Str" -> Ok(h, StrV(e.s))
    [] e.k = "NameConstant" -> Ok(h, NoneV)
    [] e.k = "Name" -> Lookup(h, fr, e.id)
    [] OTHER -> Then(EvalExprs(h, fr, Operands(e)), LAMBDA r : Combine(r.h, e, r.v.s))

\* the value of e from the values vals of its operands
Combine(h, e, vals) ==
  CASE e.k \in {"BinOp", "Compare"} -> Arith(h, e.op, vals[1], vals[2])
    [] e.k = "Tuple" -> Ok(h, TupleV(vals))
    [] e.k = "List" -> Ok(Alloc(h, ListObj(vals)), RefV(Len(h) + 1))
    [] e.k = "Subscript" -> GetItem(h, vals[1], e.index, Len(h))
    [] e.k = "Attribute" -> GetAttr(h, vals[1], e.attr)
    [] e.k = "Call" -> Apply(h, vals[1], Tail(vals))

\* func(*args)
Apply(h, f, args) ==
  CASE f.t = "hook" /\ f.nm = "init" /\ Len(args) = 1 ->
         Ok(Alloc(h, init(args[1].nm)), RefV(Len(h) + 1))
    [] f.t = "hook" /\ f.nm = "assign" /\ Len(args) = 2 ->
         Then(SetVal(h, args[1], args[2]), LAMBDA r : Ok(r.h, args[1]))
    [] f.t = "hook" /\ f.nm = "read" /\ Len(args) = 1 ->
         IF IsKind(h, args[1], "Variable")
           THEN OfOutcome(h, read(h, args[1].n))
           ELSE Err(h, "AssertionError", "")
    [] f.t = "hook" /\ f.nm = "if_stmt" /\ Len(args) = 4 ->
         if_stmt(h, args[1], args[2], args[3])
    [] f.t = "hook" /\ f.nm = "for_stmt" /\ Len(args) = 5 ->
         IF IsSeq(h, args[2])
           THEN for_stmt(h, args[1], args[2], args[3], args[4], 0,
                         Len(Items(h, args[2])))
           ELSE Err(h, "TypeError", "len")
    [] f.t = "builtin" /\ f.nm = "range" /\ Len(args) = 1 ->
         IF args[1].t = "int" THEN Ok(h, range(args[1].n)) ELSE Err(h, "TypeError", "")
    [] f.t = "method" /\ f.nm = "append" /\ Len(args) = 1 ->
         Ok([h EXCEPT ![f.n].val = Append(@, args[1])], NoneV)
    [] IsKind(h, f, "Func") -> CallFn(h, f.n, args)
    [] OTHER -> Err(h, "TypeError", "call")

\* a call of the function object at address fa: a fresh frame with the
\* function's cells and globals
CallFn(h, fa, args) ==
  LET def == h[fa].def IN
  IF Len(args) # Len(def.args) THEN Err(h, "TypeError", "arguments")
  ELSE LET fresh == Frame(PyLocalNames(def), Closure(h[fa]), h[fa].globals)
           bound == [fresh EXCEPT !.vars =
                       [x \in DOMAIN @ |->
                          IF \E i \in 1..Len(args) : def.args[i] = x
                            THEN args[CHOOSE i \in 1..Len(args) : def.args[i] = x]
                            ELSE @[x]]]
       IN Finish(ExecBlock(Alloc(h, bound), Len(h) + 1, def.body))

if_stmt_always_body(h, cond, body, orelse) ==
  Then(Apply(h, cond, <<>>), LAMBDA rc :
    Then(Apply(rc.h, body, <<>>), LAMBDA rb : Ok(rb.h, NoneV)))

\* py_defaults.if_stmt(cond, body, orelse, _)
if_stmt(h, cond, body, orelse) ==
  Then(Apply(h, cond, <<>>), LAMBDA rc :
    Then(Apply(rc.h, IF Truthy(rc.v) THEN body ELSE orelse, <<>>), LAMBDA rb :
      Ok(rb.h, NoneV)))

\* py_defaults.for_stmt(target, iter_, body, orelse, _), at index i of
\* range(len(iter_)) whose length is n
for_stmt(h, target, iter_, body, orelse, i, n) ==
  IF i >= n
    THEN Then(Apply(h, orelse, <<>>), LAMBDA ro : Ok(ro.h, NoneV))
    ELSE Then(GetItem(h, iter_, i, Len(h)), LAMBDA item :
           Then(SetVal(h, target, item.v), LAMBDA rs :
             Then(Apply(rs.h, body, <<>>), LAMBDA rb :
               for_stmt(rb.h, target, iter_, body, orelse, i + 1, n))))

\* the native for statement at index i of the iterable it
ExecFor(h, fr, s, it, i) ==
  LET item == GetItem(h, it, i, Len(h)) IN
  IF item.exc = "IndexError" THEN ExecBlock(h, fr, s.orelse)
  ELSE IF item.exc # "" THEN item
  ELSE Then(AssignTarget(h, fr, s.target, item.v), LAMBDA ra :
         Then(ExecBlock(ra.h, fr, s.body), LAMBDA rb :
           ExecFor(rb.h, fr, s, it, i + 1)))

ExecStmt(h, fr, s) ==
  CASE s.k \in {"Assign", "AugAssign", "Expr", "Return", "If", "For"} ->
         Then(EvalExpr(h, fr, StmtExpr(s)), LAMBDA r : AfterExpr(r.h, fr, s, r.v))
    [] s.k = "FunctionDef" ->
         Ok(StoreName(Alloc(h, MakeFunction(h, fr, s)), fr, s.name, RefV(Len(h) + 1)),
            NoneV)
    [] OTHER -> Ok(h, NoneV)

\* the statement s once its expression has the value v
AfterExpr(h, fr, s, v) ==
  CASE s.k = "Assign" -> AssignTargets(h, fr, s.targets, v)
    [] s.k = "AugAssign" -> Ok(StoreName(h, fr, s.target.id, v), NoneV)
    [] s.k = "Expr" -> Ok(h, NoneV)
    [] s.k = "Return" -> Returned(Ok(h, v))
    [] s.k = "If" -> ExecBlock(h, fr, IF Truthy(v) THEN s.body ELSE s.orelse)
    [] s.k = "For" -> ExecFor(h, fr, s, v, 0)

ExecBlock(h, fr, stmts) ==
  IF Len(stmts) = 0 THEN Ok(h, NoneV)
  ELSE Then(ExecStmt(h, fr, Head(stmts)), LAMBDA r : ExecBlock(r.h, fr, Tail(stmts)))

\* a module whose body is stmts, executed: a frame that is its own globals
Module(h, stmts) ==
  LET m == Len(h) + 1 IN
  ExecBlock(Alloc(h, Frame(Stored(stmts), NoCells, m)), m, stmts)

---------------------------------------------------------------------------
(* api/conversion.py *)

\* the exception a visit method raised somewhere in stmts, "" if none did
RECURSIVE RaisedIn(_)
RaisedIn(stmts) ==
  IF Len(stmts) = 0 THEN ""
  ELSE LET s == Head(stmts)
           here ==
             CASE s.k = "VisitError" -> s.exc
               [] s.k = "FunctionDef" -> RaisedIn(s.body)
               [] s.k \in {"If", "For"} ->
                    IF RaisedIn(s.body) # "" THEN RaisedIn(s.body) ELSE RaisedIn(s.orelse)
               [] OTHER -> ""
       IN IF here # "" THEN here ELSE RaisedIn(Tail(stmts))

\* parsing.parse_entity(func): the def statement of the function object
parse_entity(h, func) == h[func.n].def

\* apply_(node, ctx, transformer_module, overload)
apply_(node, cfg, gen, transformer_module) ==
  CASE transformer_module = "variables" -> variables_transform(node, cfg, gen)
    [] transformer_module = "control_flow" -> control_flow_transform(node, cfg, gen)
    [] transformer_module = "functions" -> functions_transform(node, cfg, gen)

\* the source _wrap_in_generator compiles: def gen_fun(overload) with a
\* dummy `var = None` per free variable of func
gen_fun_source(h, func, source, gen, cfg) ==
  LET nonlocals == [i \in 1..Len(h[func.n].freevars) |->
                      Assign(<<Name(h[func.n].freevars[i])>>, NoneLit)]
  IN FunctionDef(new_symbol("gen_fun", {}, gen), <<cfg.symbol_name>>,
                 nonlocals \o <<source>> \o <<Return(Name(h[func.n].def.name))>>)

\* _wrap_in_generator(func, source, namer, overload): the generated source
\* becomes a module of its own, and outer_func(overload.module) is called
_wrap_in_generator(h, func, source, gen, cfg) ==
  LET ret == gen_fun_source(h, func, source, gen, cfg) IN
  Then(Module(h, <<ret>>), LAMBDA converted_module :
    Then(Lookup(converted_module.h, Len(h) + 1, ret.name), LAMBDA outer_func :
      Apply(outer_func.h, outer_func.v, <<ModuleV("overload_module")>>)))

attach_without_update(original_func, gen_func) ==
  Func(gen_func.def, gen_func.freevars, gen_func.cells, original_func.globals)

\* _attach_closure(original_func, gen_func), on the two function objects
_attach_closure(original_func, gen_func) ==
  LET gen_dict == Closure(gen_func)
      original_dict == Closure(original_func)
      updated == [x \in DOMAIN gen_dict \cup DOMAIN original_dict |->
                    IF x \in DOMAIN original_dict THEN original_dict[x]
                    ELSE gen_dict[x]]
  IN Func(gen_func.def, gen_func.freevars,
          [i \in 1..Len(gen_func.freevars) |-> updated[gen_func.freevars[i]]],
          original_func.globals)

---------------------------------------------------------------------------
(* SpecRun: convert(func, py_defaults, transformers) step by step, then a  *)
(* call of the converted function, beside a call of the original one       *)

MaxArg == 2
MaxN == 3
MaxPairs == 2
\* the bound of `if i < 5` in check_cond
IfBound == 5

\* a case: the module that defines the function, the global name of the
\* function to convert, the argument expressions of the call, an expression
\* evaluated in the module after the call, and the transformers
Case(fam, module, func, args, probe, passes) ==
  [fam |-> fam, module |-> module, func |-> func, args |-> args,
   probe |-> probe, passes |-> passes]

\* variables_test.py: assign_read_no_params, assign_read_with_params
assign_read_no_params ==
  FunctionDef("assign_read_no_params", <<>>,
    <<Assign(<<Name("a")>>, Num(1)),
      Assign(<<Name("b")>>, BinOp("Add", Name("a"), Num(1))),
      Return(Name("b"))>>)

assign_read_with_params ==
  FunctionDef("assign_read_with_params", <<"x">>,
    <<Assign(<<Name("y")>>, BinOp("Add", Name("x"), Num(1))),
      Return(BinOp("Sub", Name("y"), Name("x")))>>)

\* a = b = x; return b
assign_two_targets ==
  FunctionDef("assign_two_targets", <<"x">>,
    <<Assign(<<Name("a"), Name("b")>>, Name("x")),
      Return(Name("b"))>>)

\* a, b = (x, 1); return a
assign_tuple_target ==
  FunctionDef("assign_tuple_target", <<"x">>,
    <<Assign(<<Tuple(<<Name("a"), Name("b")>>)>>, Tuple(<<Name("x"), Num(1)>>)),
      Return(Name("a"))>>)

\* a, b = p; return a
assign_tuple_dynamic ==
  FunctionDef("assign_tuple_dynamic", <<"p">>,
    <<Assign(<<Tuple(<<Name("a"), Name("b")>>)>>, Name("p")),
      Return(Name("a"))>>)

\* x += 1; return x
aug_assign ==
  FunctionDef("aug_assign", <<"x">>,
    <<AugAssign(Name("x"), Num(1)), Return(Name("x"))>>)

\* s = 0; for i in range(n): s += i; return s
aug_assign_in_loop ==
  FunctionDef("aug_assign_in_loop", <<"n">>,
    <<Assign(<<Name("s")>>, Num(0)),
      For(Name("i"), Call(Name("range"), <<Name("n")>>),
          <<AugAssign(Name("s"), Name("i"))>>, <<>>),
      Return(Name("s"))>>)

\* def inner(): y = 1; y += x; return y -- return inner()
aug_assign_in_inner ==
  FunctionDef("aug_assign_in_inner", <<"x">>,
    <<FunctionDef("inner", <<>>,
        <<Assign(<<Name("y")>>, Num(1)),
          AugAssign(Name("y"), Name("x")),
          Return(Name("y"))>>),
      Return(Call(Name("inner"), <<>>))>>)

\* variables_test.py, control_flow_test.py: test_for_loop_return_target
for_loop_return_target ==
  FunctionDef("test_fn", <<"n">>,
    <<Assign(<<Name("sum_")>>, Num(0)),
      For(Name("i"), Call(Name("range"), <<Name("n")>>),
          <<Assign(<<Name("sum_")>>, BinOp("Add", Name("sum_"), Name("i")))>>, <<>>),
      Return(BinOp("Add", Name("sum_"), Name("i")))>>)

\* control_flow_test.py: test_for_parameterized_noop
for_compound_target ==
  FunctionDef("test_fn", <<"iter_">>,
    <<Assign(<<Name("res")>>, List(<<>>)),
      For(Tuple(<<Name("x"), Name("y")>>), Name("iter_"),
          <<Expr(Call(Attribute(Name("res"), "append"),
                      <<Tuple(<<Name("x"), Name("y")>>)>>))>>, <<>>),
      Return(Name("res"))>>)

\* if i < 5: v = [1] else: v = [2]; return v
if_assign ==
  FunctionDef("if_assign", <<"i">>,
    <<If(Compare("Lt", Name("i"), Num(IfBound)),
         <<Assign(<<Name("v")>>, List(<<Num(1)>>))>>,
         <<Assign(<<Name("v")>>, List(<<Num(2)>>))>>),
      Return(Name("v"))>>)

\* conversion_test.py: check_cond
check_cond ==
  FunctionDef("check_cond", <<"i">>,
    <<Assign(<<Name("v")>>, List(<<>>)),
      If(Compare("Lt", Name("i"), Num(IfBound)),
         <<Expr(Call(Attribute(Name("v"), "append"), <<Num(1)>>))>>,
         <<Expr(Call(Attribute(Name("v"), "append"), <<Num(2)>>))>>),
      Return(Name("v"))>>)

\* variables_test.py: test_vars_defined_after_inner
enclosing_func ==
  FunctionDef("enclosing_func", <<>>,
    <<Assign(<<Name("x")>>, Num(1)),
      FunctionDef("inner_func", <<>>, <<Return(BinOp("Add", Name("x"), Name("y")))>>),
      Assign(<<Name("y")>>, Num(2)),
      Return(Call(Name("inner_func"), <<>>))>>)

\* the same read of x, one function deeper
enclosing_twice ==
  FunctionDef("enclosing_twice", <<>>,
    <<Assign(<<Name("x")>>, Num(1)),
      FunctionDef("middle_func", <<>>,
        <<FunctionDef("inner_func", <<>>, <<Return(Name("x"))>>),
          Return(Call(Name("inner_func"), <<>>))>>),
      Return(Call(Name("middle_func"), <<>>))>>)

\* G = 10; def countdown(n): if n < 1: return G; return countdown(n - 1)
countdown ==
  <<Assign(<<Name("G")>>, Num(10)),
    FunctionDef("countdown", <<"n">>,
      <<If(Compare("Lt", Name("n"), Num(1)), <<Return(Name("G"))>>, <<>>),
        Return(Call(Name("countdown"), <<BinOp("Sub", Name("n"), Num(1))>>))>>)>>

\* variables_py3_test.py: test_nonlocal_no_transform
nonlocal_closing_free ==
  <<FunctionDef("nonlocal_closing_free", <<>>,
      <<Assign(<<Name("x")>>, Num(1)),
        FunctionDef("mod_x", <<"y">>,
          <<Nonlocal(<<"x">>), Assign(<<Name("x")>>, Name("y"))>>),
        FunctionDef("read_x", <<>>, <<Return(Name("x"))>>),
        Return(Tuple(<<Name("mod_x"), Name("read_x")>>))>>),
    Assign(<<Tuple(<<Name("mod_x"), Name("read_x")>>)>>,
           Call(Name("nonlocal_closing_free"), <<>>))>>

\* functions that use the name the namer hands out for the overload: as a
\* local, as a parameter, and as a free variable
shadow_local ==
  FunctionDef("shadow_local", <<"x">>,
    <<Assign(<<Name("overload")>>, Name("x")), Return(Name("overload"))>>)

shadow_param ==
  FunctionDef("shadow_param", <<"overload">>, <<Return(Name("overload"))>>)

shadow_free ==
  <<FunctionDef("shadow_free", <<"x">>,
      <<Assign(<<Name("overload")>>, Name("x")),
        FunctionDef("read_o", <<>>,
          <<Assign(<<Name("t")>>, Name("overload")), Return(Name("t"))>>),
        Return(Name("read_o"))>>),
    Assign(<<Name("read_o")>>, Call(Name("shadow_free"), <<Num(MaxArg)>>))>>

\* the list [(1, 2), (3, 4), ...] of n pairs, as an expression
Pairs(n) ==
  List([i \in 1..n |-> Tuple(<<Num(2 * i - 1), Num(2 * i)>>)])

OnlyVariables == <<"variables">>
VariablesThenControlFlow == <<"variables", "control_flow">>
ControlFlowThenVariables == <<"control_flow", "variables">>

Plain(fam, def, args, passes) == Case(fam, <<def>>, def.name, args, Num(0), passes)

StraightCases ==
  {Plain("straight", assign_read_no_params, <<>>, OnlyVariables)}
  \cup {Plain("straight", def, <<Num(x)>>, OnlyVariables) :
          def \in {assign_read_with_params, assign_two_targets,
                   assign_tuple_target, aug_assign},
          x \in 0..MaxArg}
  \cup {Plain("straight", assign_tuple_dynamic, <<Tuple(<<Num(x), Num(1)>>)>>,
               OnlyVariables) : x \in 0..MaxArg}

LoopCases ==
  {Plain("loop", for_loop_return_target, <<Num(n)>>, passes) :
     n \in -1..MaxN, passes \in {OnlyVariables, VariablesThenControlFlow}}

PairsCases ==
  {Plain("pairs", for_compound_target, <<Pairs(n)>>, VariablesThenControlFlow) :
     n \in 0..MaxPairs}

IfCases ==
  {Plain("if", if_assign, <<Num(i)>>, passes) :
     i \in {1} \cup ((IfBound - 1)..(IfBound + 1)),
     passes \in {VariablesThenControlFlow, ControlFlowThenVariables}}

NestedCases ==
  {Plain("nested", def, <<>>, OnlyVariables) : def \in {enclosing_func, enclosing_twice}}

NoPassCases ==
  {Plain("nopass", check_cond, <<Num(i)>>, <<>>) : i \in {1, IfBound}}
  \cup {Case("nopass", countdown, "countdown", <<Num(n)>>, Num(0), <<>>) :
          n \in 0..MaxArg}

ClosureCases ==
  {Case("closure", nonlocal_closing_free, "mod_x", <<Num(y)>>,
        Call(Name("read_x"), <<>>), passes) :
     y \in 1..MaxArg, passes \in {<<>>, OnlyVariables}}

AugCases ==
  {Plain("aug", def, <<Num(MaxArg)>>, passes) :
     def \in {aug_assign_in_loop, aug_assign_in_inner},
     passes \in {OnlyVariables, VariablesThenControlFlow, ControlFlowThenVariables}}

ShadowCases ==
  {Plain("shadow", def, <<Num(MaxArg)>>, passes) :
     def \in {shadow_local, shadow_param}, passes \in {<<>>, OnlyVariables}}
  \cup {Case("shadow", shadow_free, "read_o", <<>>, Num(0), passes) :
          passes \in {<<>>, OnlyVariables}}

RunCases ==
  StraightCases \cup LoopCases \cup PairsCases \cup IfCases \cup NestedCases
    \cup NoPassCases \cup ClosureCases \cup AugCases \cup ShadowCases

\* convert, lines 148-151: the namer, and the overload symbol it hands out
RunCfg ==
  [module |-> PyDefaultsHooks, symbol_name |-> new_symbol("overload", {}, {})]


\* the module of the case, executed: its heap h and the function to convert v
World(case) == Then(Module(<<>>, case.module), LAMBDA w : Lookup(w.h, 1, case.func))

\* func(*args) in the module of heap h, then the probe
Probed(r, p) == [h |-> p.h, out |-> [call |-> Outcome(r), probe |-> Outcome(p)]]

CallAndProbe(h, func, case) ==
  LET Called(r) == Probed(r, EvalExpr(r.h, 1, case.probe))
      Evaluated(a) == Called(Apply(a.h, func, a.v.s))
  IN Evaluated(EvalExprs(h, 1, case.args))

InitRun ==
  /\ IdleStore /\ IdleBool /\ IdleOthers
  /\ rcase \in RunCases
  /\ rpc = "start"
  /\ rtree = Pass
  /\ rgen = {}
  /\ rtodo = <<>>
  /\ rheap = <<>>
  /\ rfn = NoFn
  /\ rorig = NotRun
  /\ rconv = NotRun

\* convert, lines 139-151: parse_entity, Namer, the overload symbol
RunParse ==
  /\ rpc = "start"
  /\ LET Parsed(w) ==
           /\ rheap' = w.h
           /\ rfn' = [rfn EXCEPT !.orig = w.v.n]
           /\ rtree' = parse_entity(w.h, w.v)
     IN Parsed(World(rcase))
  /\ rgen' = {RunCfg.symbol_name}
  /\ rtodo' = rcase.passes
  /\ rpc' = "transform"
  /\ UNCHANGED <<rcase, rorig, rconv>>
  /\ UNCHANGED notRun

\* _transform, `for tr in transformers`: the module of this turn
NextTransformer_last(transformers) == transformers[Len(transformers)]

NextTransformer(transformers) == Head(transformers)

\* _transform: one turn of `for tr in transformers`; an exception raised by
\* a visit method leaves convert
RunApply ==
  /\ rpc = "transform"
  /\ rtodo # <<>>
  /\ LET r == apply_(rtree, RunCfg, rgen, NextTransformer(rtodo)) IN
       IF RaisedIn(r.out) # ""
         THEN /\ rpc' = "done"
              /\ rconv' = [call |-> Raise(RaisedIn(r.out), "convert"),
                           probe |-> Raise(RaisedIn(r.out), "convert")]
              /\ UNCHANGED <<rtree, rgen, rtodo>>
         ELSE /\ rtree' = r.out[1]
              /\ rgen' = r.gen
              /\ rtodo' = Tail(rtodo)
              /\ UNCHANGED <<rpc, rconv>>
  /\ UNCHANGED <<rcase, rheap, rfn, rorig>>
  /\ UNCHANGED notRun

\* convert, line 154: _wrap_in_generator
RunWrap ==
  /\ rpc = "transform"
  /\ rtodo = <<>>
  /\ LET Wrapped(g) ==
           /\ rheap' = g.h
           /\ rfn' = [rfn EXCEPT !.gen = g.v.n]
     IN Wrapped(_wrap_in_generator(rheap, RefV(rfn.orig), rtree, rgen, RunCfg))
  /\ rgen' = rgen \cup {new_symbol("gen_fun", {}, rgen)}
  /\ rpc' = "wrapped"
  /\ UNCHANGED <<rcase, rtree, rtodo, rorig, rconv>>
  /\ UNCHANGED notRun

\* convert, line 155: _attach_closure
RunAttach ==
  /\ rpc = "wrapped"
  /\ rheap' = Alloc(rheap, _attach_closure(rheap[rfn.orig], rheap[rfn.gen]))
  /\ rfn' = [rfn EXCEPT !.conv = Len(rheap) + 1]
  /\ rpc' = "converted"
  /\ UNCHANGED <<rcase, rtree, rgen, rtodo, rorig, rconv>>
  /\ UNCHANGED notRun

\* the converted function called on the arguments of the case
RunCallConverted ==
  /\ rpc = "converted"
  /\ LET Called(r) ==
           /\ rheap' = r.h
           /\ rconv' = r.out
     IN Called(CallAndProbe(rheap, RefV(rfn.conv), rcase))
  /\ rpc' = "done"
  /\ UNCHANGED <<rcase, rtree, rgen, rtodo, rfn, rorig>>
  /\ UNCHANGED notRun

\* the original function called on the same arguments, in a module of its own
RunCallOriginal ==
  /\ rpc # "idle"
  /\ rorig = NotRun
  /\ LET InWorld(w) == rorig' = CallAndProbe(w.h, w.v, rcase).out
     IN InWorld(World(rcase))
  /\ UNCHANGED <<rcase, rpc, rtree, rgen, rtodo, rheap, rfn, rconv>>
  /\ UNCHANGED notRun

NextRun ==
  \/ RunParse
  \/ RunApply
  \/ RunWrap
  \/ RunAttach
  \/ RunCallConverted
  \/ RunCallOriginal

SpecRun == InitRun /\ [][NextRun]_vars

---------------------------------------------------------------------------
(* Properties of the conversions of SpecRun *)

Done == rpc = "done"
BothDone == rpc = "done" /\ rorig # NotRun

\* the list value [e1, e2, ...] as a call returns it
ListResult(elts) == [t |-> "list", n |-> 0, nm |-> "", s |-> elts]

\* C2: a straight-line function whose variables are locals or parameters,
\* converted with only the Variables pass under the default overload,
\* returns for every input the value the original function returns.
C2_StraightLineSameReturn ==
  (rcase.fam = "straight" /\ BothDone) => rconv.call = rorig.call

\* C3: the function produced by convert with an empty list of passes
\* returns, for every function and input, what the original function returns.
C3_NoPassSameReturn ==
  (rcase.passes = <<>> /\ BothDone) => rconv = rorig

\* 0 + 1 + ... + (n - 1)
SumBelow(n) == (n * (n - 1)) \div 2

\* C6: the accumulation over `for i in range(n)` that reads i after the
\* loop, converted with the Variables pass alone or followed by the
\* Control-Flow pass: for n <= 0 the call raises PyctUnboundLocalError
\* naming i, for n > 0 it returns what the original returns, the sum plus
\* n - 1.
C6_LoopTargetAfterLoop ==
  (rcase.fam = "loop" /\ Done) =>
    LET n == rcase.args[1].n IN
    IF n <= 0
      THEN rconv.call = Raise("PyctUnboundLocalError", "i")
      ELSE /\ rconv.call = Ret(IntV(SumBelow(n) + n - 1))
           /\ rorig # NotRun => rconv.call = rorig.call

C6_Witness ==
  /\ rcase.fam = "loop" /\ Done
  /\ rcase.passes = VariablesThenControlFlow
  /\ rcase.args[1].n = 0
  /\ rconv.call.exc = "PyctUnboundLocalError"

C6_WitnessPositive ==
  /\ rcase.fam = "loop" /\ BothDone
  /\ rcase.passes = OnlyVariables
  /\ rcase.args[1].n > 1
  /\ rconv.call = rorig.call /\ rconv.call.exc = ""

\* C7: `for x, y in iter_` converted with the Variables pass and then the
\* Control-Flow pass runs its body once per element, in order, with x and y
\* bound to the components: the call returns the list of the pairs of the
\* input, as the original does, the empty list included.
C7_CompoundTargetLoop ==
  (rcase.fam = "pairs" /\ Done) =>
    LET elts == rcase.args[1].elts IN
    /\ rconv.call =
         Ret(ListResult([i \in 1..Len(elts) |->
               TupleV(<<IntV(elts[i].elts[1].n), IntV(elts[i].elts[2].n)>>)]))
    /\ rorig # NotRun => rconv.call = rorig.call

C7_Witness ==
  /\ rcase.fam = "pairs" /\ BothDone
  /\ Len(rcase.args[1].elts) >= 2
  /\ Len(rconv.call.v.s) = Len(rcase.args[1].elts)

\* what `if i < 5: v = [1] else: v = [2]; return v` returns on input i
IfExpected(i) == Ret(ListResult(<<IntV(IF i < IfBound THEN 1 ELSE 2)>>))

VirtualizedHere(def) ==
  {def.body[i].targets[1].id : i \in
     {j \in 1..Len(def.body) :
        /\ def.body[j].k = "Assign"
        /\ IsOverloadCall(def.body[j].value, RunCfg.symbol_name, "init")}}

IsHook(e, hook) ==
  /\ e.k = "Call"
  /\ IsOverloadCall(e, RunCfg.symbol_name, hook)
  /\ Len(e.args) >= 1
  /\ e.args[1].k = "Name"

\* the names of virt an expression loads otherwise than as the handle of
\* overload.read, overload.assign or overload.init
RECURSIVE DirectExpr(_, _)
DirectExpr(e, virt) ==
  CASE e.k = "Name" -> {e.id} \cap virt
    [] e.k \in {"Num", "Str", "NameConstant"} -> {}
    [] IsHook(e, "read") -> {}
    [] IsHook(e, "assign") -> DirectExpr(e.args[2], virt)
    [] OTHER -> UNION {DirectExpr(Operands(e)[i], virt) : i \in 1..Len(Operands(e))}

\* the names of virt the statements store or load directly; a nested
\* function sees the handles of its enclosing functions unless it rebinds
\* the name
RECURSIVE DirectStmts(_, _)
DirectStmts(stmts, virt) ==
  IF Len(stmts) = 0 THEN {}
  ELSE LET s == Head(stmts)
           here ==
             CASE s.k = "Assign" ->
                    IF IsOverloadCall(s.value, RunCfg.symbol_name, "init") THEN {}
                    ELSE (Stored(<<s>>) \cap virt) \cup DirectExpr(s.value, virt)
               [] s.k \in {"Expr", "Return"} -> DirectExpr(s.value, virt)
               [] s.k = "If" ->
                    DirectExpr(s.test, virt) \cup DirectStmts(s.body, virt)
                      \cup DirectStmts(s.orelse, virt)
               [] s.k = "For" ->
                    (SeqToSet(TargetNames(s.target)) \cap virt)
                      \cup DirectExpr(s.iter, virt) \cup DirectStmts(s.body, virt)
                      \cup DirectStmts(s.orelse, virt)
               [] s.k = "FunctionDef" ->
                    DirectStmts(s.body, (virt \ PyLocalNames(s)) \cup VirtualizedHere(s))
               [] OTHER -> {}
       IN here \cup DirectStmts(Tail(stmts), virt)

\* the names a block assigns through overload.assign
RECURSIVE AssignedVia(_)
AssignedVia(stmts) ==
  IF Len(stmts) = 0 THEN {}
  ELSE LET s == Head(stmts)
           here ==
             CASE s.k = "Expr" /\ IsHook(s.value, "assign") -> {s.value.args[1].id}
               [] s.k \in {"If", "For"} -> AssignedVia(s.body) \cup AssignedVia(s.orelse)
               [] OTHER -> {}
       IN here \cup AssignedVia(Tail(stmts))

\* the virtualized names the original function assigns for which the
\* rewritten function has no overload.assign
LostWrites(original, rewritten) ==
  ((Stored(original.body) \cap VirtualizedHere(rewritten))
     \ {original.body[i].name : i \in
          {j \in 1..Len(original.body) : original.body[j].k = "FunctionDef"}})
    \ AssignedVia(rewritten.body)

AfterVariables ==
  rcase.passes = OnlyVariables /\ rpc = "transform" /\ rtodo = <<>>

\* C9: after the Variables pass every write to a virtualized name is an
\* overload.assign and every read of its value an overload.read: the
\* rewritten function stores or loads no virtualized name directly and
\* drops no write, for every target of every assignment and for reads in
\* nested functions at every depth.
C9_NoDirectAccess ==
  AfterVariables =>
    /\ DirectStmts(<<rtree>>, {}) = {}
    /\ LostWrites(parse_entity(rheap, RefV(rfn.orig)), rtree) = {}

\* C10: the closure of the converted function has one cell per free
\* variable of the compiled code, in its order; the cell of a name that is
\* also free in the original function is the original's cell, the other
\* cells are the compiled function's; a write through the converted
\* function is seen by the closures that share the cell.
C10_OriginalCellsTakePrecedence ==
  rfn.conv # 0 =>
    LET conv == rheap[rfn.conv]
        gen == rheap[rfn.gen]
        orig == rheap[rfn.orig]
    IN /\ conv.freevars = gen.freevars
       /\ Len(conv.cells) = Len(conv.freevars)
       /\ \A i \in 1..Len(conv.freevars) :
            IF conv.freevars[i] \in SeqToSet(orig.freevars)
              THEN conv.cells[i] = Closure(orig)[conv.freevars[i]]
              ELSE conv.cells[i] = gen.cells[i]
       /\ (rcase.fam = "closure" /\ Done) => rconv.probe = Ret(IntV(rcase.args[1].n))

C10_Witness ==
  /\ rcase.fam = "closure" /\ Done
  /\ rcase.passes = OnlyVariables
  /\ rcase.args[1].n = 2
  /\ rconv.probe = Ret(IntV(2))
  /\ LET conv == rheap[rfn.conv]
         gen == rheap[rfn.gen]
         orig == rheap[rfn.orig]
     IN /\ "x" \in SeqToSet(orig.freevars)
        /\ Closure(conv)["x"] = Closure(orig)["x"]
        /\ Closure(conv)["x"] # Closure(gen)["x"]
        /\ RunCfg.symbol_name \in SeqToSet(conv.freevars)
        /\ Closure(conv)[RunCfg.symbol_name] = Closure(gen)[RunCfg.symbol_name]

\* the passes convert has applied so far, and the one it applies next
Applied == Len(rcase.passes) - Len(rtodo)

\* the steps of convert in order: Extract, the passes, Wrap with Compile, Rebind
StepOf(pc) ==
  CASE pc = "start" -> 0 [] pc = "transform" -> 1 [] pc = "wrapped" -> 2
    [] pc = "converted" -> 3 [] OTHER -> 4

\* C11: convert runs Extract, then each pass of the caller's list exactly
\* once and in list order, each on the tree its predecessor produced, then
\* Wrap with Compile, then Rebind: the passes still to run are always a
\* suffix of the list, a pass step applies the first of them to the
\* current tree, Wrap starts only when none is left, and the converted
\* function appears in the Rebind step that follows Wrap and in no other.
C11_PassesInListOrder ==
  /\ [](rpc # "idle" =>
         /\ Applied >= 0
         /\ rtodo = SubSeq(rcase.passes, Applied + 1, Len(rcase.passes))
         /\ rpc \in {"wrapped", "converted"} => rtodo = <<>>
         /\ rfn.conv # 0 <=> (rpc = "converted" \/ (rpc = "done" /\ rtodo = <<>>)))
  /\ [][rpc # "idle" =>
         /\ (rpc = "start" /\ rpc' # rpc) =>
               rpc' = "transform" /\ rtodo' = rcase.passes
         /\ rtree' # rtree =>
               \/ rpc = "start"
               \/ /\ rpc = "transform" /\ rpc' = "transform" /\ Applied < Len(rcase.passes)
                  /\ rtodo' = Tail(rtodo)
                  /\ rtree' = apply_(rtree, RunCfg, rgen, rcase.passes[Applied + 1]).out[1]
         /\ rtodo' # rtodo => (rpc = "start" \/ rtree' # rtree \/ rtodo' = Tail(rtodo))
         /\ (rpc' # rpc /\ rpc' # "done") => StepOf(rpc') = StepOf(rpc) + 1
         /\ (rpc' = "done" /\ rpc # "done") =>
               rpc = "converted" \/ (rpc = "transform" /\ rtodo' = rtodo /\ rtodo # <<>>)
         /\ rfn'.conv # rfn.conv => (rpc = "wrapped" /\ rpc' = "converted")]_vars

C11_Witness ==
  /\ rpc = "converted"
  /\ rcase.passes = ControlFlowThenVariables
  /\ rtodo = <<>>
  /\ rfn.conv # 0

---------------------------------------------------------------------------
(* SpecPass: _transform(source, ctx, overload, transformers) under an      *)
(* overload module that exposes only some of the hooks                     *)

\* functions_test.py: test_overload_not_staged
overload_not_staged ==
  FunctionDef("test_fn", <<"y">>,
    <<Assign(<<Name("x")>>, BinOp("Add", Num(1), Name("y"))),
      Return(Name("x"))>>)

\* functions_test.py: test_unknown_function_not_swapped
call_adder ==
  FunctionDef("test_fn", <<"x", "y">>,
    <<Return(Call(Name("adder"), <<Name("x"), Name("y")>>))>>)

\* an if inside a for, with a call in the branch
nested_constructs ==
  FunctionDef("nested_constructs", <<"n">>,
    <<Assign(<<Name("s")>>, Num(0)),
      For(Name("i"), Call(Name("range"), <<Name("n")>>),
          <<If(Compare("Lt", Name("i"), Num(1)),
               <<Assign(<<Name("s")>>, Call(Name("abs"), <<Name("i")>>))>>,
               <<>>)>>,
          <<>>),
      Return(Name("s"))>>)

\* parameters, a local, and a nested function that takes parameters
params_and_inner ==
  FunctionDef("params_and_inner", <<"a", "b">>,
    <<Assign(<<Name("t")>>, Name("a")),
      FunctionDef("inner", <<"b", "c">>, <<Return(Name("b"))>>),
      Return(Name("inner"))>>)

\* the hooks the passes of SpecPass look for
HookNames == {"init", "assign", "read", "if_stmt", "for_stmt", "call"}

VariablesThenFunctions == <<"variables", "functions">>

PassCases ==
  {[fam |-> "pass", def |-> def, hooks |-> hooks, passes |-> passes] :
     def \in {overload_not_staged, call_adder, nested_constructs, check_cond,
              for_loop_return_target, params_and_inner},
     hooks \in SUBSET HookNames,
     passes \in {OnlyVariables, <<"control_flow">>, <<"functions">>,
                 VariablesThenFunctions, VariablesThenControlFlow}}

\* the VirtualizationConfig of the case
PassCfg == [module |-> pcase.hooks, symbol_name |-> RunCfg.symbol_name]

InitPass ==
  /\ IdleStore /\ IdleBool /\ IdleRun /\ IdleCall /\ IdleScope /\ IdleStage /\ IdleIso /\ IdleParse /\ IdleNamer /\ IdleVisit /\ IdleOps /\ IdleWhile
  /\ pcase \in PassCases
  /\ ppc = "transform"
  /\ ptree = pcase.def
  /\ pgen = {RunCfg.symbol_name}
  /\ ptodo = pcase.passes

\* _transform: one turn of `for tr in transformers`
PassApply ==
  /\ ppc = "transform"
  /\ ptodo # <<>>
  /\ LET r == apply_(ptree, PassCfg, pgen, NextTransformer(ptodo)) IN
       /\ ptree' = r.out[1]
       /\ pgen' = r.gen
  /\ ptodo' = Tail(ptodo)
  /\ UNCHANGED <<pcase, ppc>>
  /\ UNCHANGED notPass

\* _transform: return source
PassReturn ==
  /\ ppc = "transform"
  /\ ptodo = <<>>
  /\ ppc' = "done"
  /\ UNCHANGED <<pcase, ptree, pgen, ptodo>>
  /\ UNCHANGED notPass

NextPass == PassApply \/ PassReturn

SpecPass == InitPass /\ [][NextPass]_vars

\* the expressions directly under an expression
Children(e) ==
  CASE e.k \in {"BinOp", "Compare"} -> <<e.left, e.right>>
    [] e.k \in {"Tuple", "List"} -> e.elts
    [] e.k \in {"Subscript", "Attribute", "Starred"} -> <<e.value>>
    [] e.k = "Dict" -> e.values
    [] e.k = "Call" ->
         <<e.func>> \o e.args
           \o [i \in 1..Len(KeywordsOf(e)) |-> KeywordsOf(e)[i].value]
    [] OTHER -> <<>>

\* the expressions and the blocks directly under a statement
StmtExprs(s) ==
  CASE s.k \in {"Assign", "Expr", "Return"} -> <<s.value>>
    [] s.k = "If" -> <<s.test>>
    [] s.k = "For" -> <<s.iter>>
    [] OTHER -> <<>>

StmtBlock(s) ==
  CASE s.k \in {"If", "For"} -> s.body \o s.orelse
    [] s.k = "FunctionDef" -> s.body
    [] OTHER -> <<>>

\* the Call nodes of expressions and of statements, each once, outermost first
RECURSIVE CallsIn(_)
CallsIn(es) ==
  IF Len(es) = 0 THEN <<>>
  ELSE (IF Head(es).k = "Call" THEN <<Head(es)>> ELSE <<>>)
         \o CallsIn(Children(Head(es)) \o Tail(es))

RECURSIVE CallsInBlock(_)
CallsInBlock(stmts) ==
  IF Len(stmts) = 0 THEN <<>>
  ELSE CallsIn(StmtExprs(Head(stmts)))
         \o CallsInBlock(StmtBlock(Head(stmts)) \o Tail(stmts))

\* the hooks the tree refers to, as overload.hook(...)
HooksUsed(tree) ==
  LET calls == CallsInBlock(<<tree>>) IN
  {calls[i].func.attr : i \in {j \in 1..Len(calls) : is_overload_call(calls[j], PassCfg)}}

\* C12: a pass leaves the construct of a hook the overload does not expose
\* as it was and emits no reference to the missing hook: every hook the
\* tree refers to, between and after the passes, is one the overload has.
C12_AbsentHookNotReferenced ==
  ppc # "idle" => HooksUsed(ptree) \subseteq pcase.hooks

\* the calls of the tree that go through overload.call
Staged(tree) ==
  SelectSeq(CallsInBlock(<<tree>>),
            LAMBDA c : IsOverloadCall(c, PassCfg.symbol_name, "call"))

\* C13: when the Function-Call pass runs after the Variables pass, no call
\* on the overload binding (overload.init, overload.assign, overload.read)
\* is wrapped in overload.call; the calls routed through overload.call are
\* the calls of the original source, one each, so a function without calls
\* does not reach the call hook.
C13_OverloadCallsNotStaged ==
  (ppc = "done" /\ pcase.passes = VariablesThenFunctions) =>
    LET staged == Staged(ptree)
        original == CallsInBlock(<<pcase.def>>)
    IN /\ \A i \in 1..Len(staged) :
            ~(/\ staged[i].args[1].k = "Attribute"
              /\ staged[i].args[1].value = Name(PassCfg.symbol_name))
       /\ Len(staged) = IF hasattr(pcase.hooks, "call") THEN Len(original) ELSE 0
       /\ Len(original) = 0 => "call" \notin HooksUsed(ptree)

C13_Witness ==
  /\ ppc = "done" /\ pcase.passes = VariablesThenFunctions
  /\ pcase.def = overload_not_staged
  /\ pcase.hooks = {"call", "init", "assign", "read"}
  /\ HooksUsed(ptree) = {"init", "assign", "read"}

C13_WitnessStaged ==
  /\ ppc = "done" /\ pcase.passes = VariablesThenFunctions
  /\ pcase.def = call_adder
  /\ pcase.hooks = HookNames
  /\ Len(Staged(ptree)) = 1
  /\ HooksUsed(ptree) = {"init", "assign", "read", "call"}

---------------------------------------------------------------------------
(* SpecCall: one call func(a1, *s, a2, k1=v1, **d, ...) evaluated as       *)
(* written and as rewritten by FunctionCallTransformer.visit_Call under    *)
(* py_defaults.call.  The operands are names; an evaluation yields the     *)
(* names evaluated, in order (trace), and a value: an integer, a sequence  *)
(* for a tuple, a function from keys for a dict.  The callee returns what  *)
(* it receives: the positional values and the keyword mapping.             *)

MaxPositional == 2
MaxKeywords == 2

\* the i-th of n operands with a splat at position at (0: no splat)
WithSplat(n, at, At(_), splat) ==
  IF at = 0 THEN [i \in 1..n |-> At(i)]
  ELSE [i \in 1..(n + 1) |->
          IF i < at THEN At(i) ELSE IF i = at THEN splat ELSE At(i - 1)]

\* func(args, keywords) with n positional operands a1..an, a *s at
\* position star, m keywords ki=vi and a **d at position dstar
CallShape(n, star, m, dstar) ==
  CallKw(Name("func"),
         WithSplat(n, star, LAMBDA i : Name("a" \o ToString(i)), Starred(Name("s"))),
         WithSplat(m, dstar,
                   LAMBDA i : keyword("k" \o ToString(i), Name("v" \o ToString(i))),
                   keyword("", Name("d"))))

StarValues == {<<>>, <<7>>, <<7, 8>>}
DictValues == {<<>>, "z" :> 5, "k1" :> 9}

\* the values of the operands
CallEnv(s, d) ==
  [x \in {"func", "s", "d"}
         \cup {"a" \o ToString(i) : i \in 1..MaxPositional}
         \cup {"v" \o ToString(i) : i \in 1..MaxKeywords} |->
     CASE x = "func" -> 0
       [] x = "s" -> s
       [] x = "d" -> d
       [] \E i \in 1..MaxPositional : x = "a" \o ToString(i) ->
            CHOOSE i \in 1..MaxPositional : x = "a" \o ToString(i)
       [] OTHER -> 10 + CHOOSE i \in 1..MaxKeywords : x = "v" \o ToString(i)]

CallShapes ==
  UNION {{CallShape(n, star, m, dstar) : star \in 0..(n + 1), dstar \in 0..(m + 1)} :
           n \in 0..MaxPositional, m \in 0..MaxKeywords}

CallCases ==
  {[fam |-> "call", node |-> node, env |-> CallEnv(s, d)] :
     node \in CallShapes, s \in StarValues, d \in DictValues}

\* dict(d, **kw): the entries of kw over those of d
Merge(d, kw) ==
  [x \in DOMAIN d \cup DOMAIN kw |-> IF x \in DOMAIN kw THEN kw[x] ELSE d[x]]

RECURSIVE EvalArg(_, _, _), EvalArgs(_, _, _)

\* the operand e evaluated after the evaluations of trace
EvalArg(e, env, trace) ==
  CASE e.k = "Name" -> [trace |-> Append(trace, e.id), v |-> env[e.id]]
    [] e.k = "Str" -> [trace |-> trace, v |-> e.s]
    [] e.k = "Starred" -> EvalArg(e.value, env, trace)
    [] e.k = "Tuple" -> EvalArgs(e.elts, env, trace)
    [] e.k = "Dict" ->
         LET values == EvalArgs(e.values, env, trace) IN
         [trace |-> values.trace,
          v |-> [x \in {e.keys[i].s : i \in 1..Len(e.keys)} |->
                   values.v[CHOOSE i \in 1..Len(e.keys) : e.keys[i].s = x]]]
    [] e.k = "BinOp" ->
         LET both == EvalArgs(<<e.left, e.right>>, env, trace) IN
         [trace |-> both.trace, v |-> both.v[1] \o both.v[2]]
    [] e.k = "Call" /\ e.func = Name("tuple") -> EvalArg(e.args[1], env, trace)
    [] e.k = "Call" /\ e.func = Name("dict") ->
         LET both == EvalArgs(<<e.args[1], e.keywords[1].value>>, env, trace) IN
         [trace |-> both.trace, v |-> Merge(both.v[1], both.v[2])]

\* the operands es evaluated left to right
EvalArgs(es, env, trace) ==
  IF Len(es) = 0 THEN [trace |-> trace, v |-> <<>>]
  ELSE LET first == EvalArg(Head(es), env, trace)
           rest == EvalArgs(Tail(es), env, first.trace)
       IN [trace |-> rest.trace, v |-> <<first.v>> \o rest.v]

\* what the callee receives
Received(trace, pos, kw) == [exc |-> "", trace |-> trace, pos |-> pos, kw |-> kw]

\* the positional values of a call: the values of the operands, a starred
\* operand spliced in where it stands
RECURSIVE Positional(_, _)
Positional(args, vs) ==
  IF Len(args) = 0 THEN <<>>
  ELSE (IF Head(args).k = "Starred" THEN Head(vs) ELSE <<Head(vs)>>)
         \o Positional(Tail(args), Tail(vs))

\* the keyword mapping of a call, NoMapping when a key comes twice
NoMapping == [exc |-> "TypeError"]

RECURSIVE Keywords(_, _, _)
Keywords(kws, vs, acc) ==
  IF Len(kws) = 0 THEN acc
  ELSE LET more == IF Head(kws).arg = "" THEN Head(vs)
                   ELSE Head(kws).arg :> Head(vs)
       IN IF DOMAIN more \cap DOMAIN acc # {} THEN NoMapping
          ELSE Keywords(Tail(kws), Tail(vs), acc @@ more)

\* py_defaults.call(func, args, keywords): func(*args, **keywords)
call(func, args, keywords, trace) == Received(trace, args, keywords)

\* the call node as Python evaluates it: func, the positional operands and
\* the keyword operands in source order
HostCall(node, env) ==
  LET es == <<node.func>> \o node.args
              \o [i \in 1..Len(node.keywords) |-> node.keywords[i].value]
      r == EvalArgs(es, env, <<>>)
      n == Len(node.args)
      kw == Keywords(node.keywords, SubSeq(r.v, n + 2, Len(es)), <<>>)
  IN IF kw = NoMapping THEN NoMapping
     ELSE Received(r.trace, Positional(node.args, SubSeq(r.v, 2, n + 1)), kw)

\* the node overload.call(func, args, kwargs) evaluated
OverloadedCall(node, env) ==
  LET r == EvalArgs(node.args, env, <<>>) IN
  call(r.v[1], r.v[2], r.v[3], r.trace)

NotCalled == <<>>

InitCall ==
  /\ IdleStore /\ IdleBool /\ IdleRun /\ IdlePass /\ IdleScope /\ IdleStage /\ IdleIso /\ IdleParse /\ IdleNamer /\ IdleVisit /\ IdleOps /\ IdleWhile
  /\ ccase \in CallCases
  /\ cpc = "source"
  /\ ctree = ccase.node
  /\ corig = NotCalled
  /\ cconv = NotCalled

\* functions.transform on the call
CallConvert ==
  /\ cpc = "source"
  /\ ctree' = FuncExpr(ctree, RunCfg)
  /\ cpc' = "converted"
  /\ UNCHANGED <<ccase, corig, cconv>>
  /\ UNCHANGED notCall

\* the rewritten call evaluated
CallConverted ==
  /\ cpc = "converted"
  /\ cconv' = OverloadedCall(ctree, ccase.env)
  /\ cpc' = "done"
  /\ UNCHANGED <<ccase, ctree, corig>>
  /\ UNCHANGED notCall

\* the call of the source evaluated
CallOriginal ==
  /\ cpc # "idle"
  /\ corig = NotCalled
  /\ corig' = HostCall(ccase.node, ccase.env)
  /\ UNCHANGED <<ccase, cpc, ctree, cconv>>
  /\ UNCHANGED notCall

NextCall == CallConvert \/ CallConverted \/ CallOriginal

SpecCall == InitCall /\ [][NextCall]_vars

\* C14: the rewritten overload.call(func, args, kwargs) hands func the
\* positional values, in order, and the keyword mapping of the original
\* call, and evaluates the operands in the original left-to-right order,
\* for a starred operand at any position and with a double-starred operand.
C14_SameArgumentsSameOrder ==
  (cpc = "done" /\ corig # NotCalled) => cconv = corig

\* C15: an assignment to a tuple of names is rewritten by the Variables
\* pass into one overload.assign per target name, for a right-hand side
\* that is a literal of matching length and for one that is not: when the
\* pass is over, the function assigns each of a and b through the overload.
C15_TupleTargetExpanded ==
  (/\ rcase.func \in {"assign_tuple_target", "assign_tuple_dynamic"}
   /\ rpc \notin {"idle", "start"}
   /\ ~(rpc = "transform" /\ rtodo # <<>>)) =>
    /\ rtodo = <<>>
    /\ {"a", "b"} \subseteq AssignedVia(rtree.body)

\* the augmented assignments among the statements, nested ones included
RECURSIVE AugAssignsIn(_)
AugAssignsIn(stmts) ==
  IF Len(stmts) = 0 THEN <<>>
  ELSE (IF Head(stmts).k = "AugAssign" THEN <<Head(stmts)>> ELSE <<>>)
         \o AugAssignsIn(StmtBlock(Head(stmts)) \o Tail(stmts))

\* C16: converting with the Variables pass a function that contains an
\* augmented assignment fails in that pass with NotImplementedError: Wrap
\* and Compile are not reached and convert returns no function.
C16_AugAssignFailsFast ==
  (/\ rpc # "idle"
   /\ "variables" \in SeqToSet(rcase.passes)
   /\ AugAssignsIn(rcase.module) # <<>>) =>
    /\ rpc \in {"start", "transform", "done"}
    /\ rfn.gen = 0 /\ rfn.conv = 0
    /\ rpc = "done" =>
         /\ rconv.call = Raise("NotImplementedError", "convert")
         /\ rtodo # <<>> /\ Head(rtodo) = "variables"

C16_Witness ==
  /\ rpc = "done"
  /\ rcase.func = "aug_assign_in_loop"
  /\ rcase.passes = ControlFlowThenVariables
  /\ rtodo = <<"variables">>
  /\ rconv.call.exc = "NotImplementedError"
  /\ rfn.conv = 0

---------------------------------------------------------------------------
(* SpecScope: the ScopeTransformer on nests of functions *)

MaxDepth == 3

\* how one function of the nest mentions the name x
Mentions ==
  {"none", "load", "store", "param", "nonlocal", "global", "store_global",
   "global_def"}

FuncNames == [i \in 1..MaxDepth |-> "f" \o ToString(i)]

\* the statements of one function that mention x
MentionStmts(how) ==
  CASE how = "load" -> <<Expr(Name("x"))>>
    [] how = "store" -> <<Assign(<<Name("x")>>, Num(1))>>
    [] how = "nonlocal" -> <<Nonlocal(<<"x">>), Assign(<<Name("x")>>, Num(2))>>
    [] how = "global" -> <<Global(<<"x">>), Assign(<<Name("x")>>, Num(3))>>
    [] how = "store_global" -> <<Assign(<<Name("x")>>, Num(4)), Global(<<"x">>)>>
    [] OTHER -> <<>>

\* def f<i>(...): the mention of x and the nested def of f<i+1>, the mention
\* first or the def first
RECURSIVE Nest(_, _, _)
Nest(hows, i, def_first) ==
  LET inner == IF i < Len(hows) THEN <<Nest(hows, i + 1, def_first)>>
               ELSE <<>>
      own == IF hows[i] = "global_def"
             THEN <<Global(<<FuncNames[IF i < Len(hows) THEN i + 1 ELSE i]>>)>>
             ELSE MentionStmts(hows[i])
      decl == SelectSeq(own, LAMBDA s : s.k \in {"Nonlocal", "Global"})
      use == SelectSeq(own, LAMBDA s : s.k \notin {"Nonlocal", "Global"})
  IN FunctionDef(FuncNames[i],
                 IF hows[i] = "param" THEN <<"x">> ELSE <<>>,
                 IF def_first THEN decl \o inner \o use \o <<Return(Num(0))>>
                 ELSE own \o inner \o <<Return(Num(0))>>)

\* the nearest function above i that binds or declares x, 0 when there is
\* none among the analysed functions
NearestBinder(hows, i) ==
  LET above == {j \in 1..(i - 1) :
                  hows[j] \in {"store", "param", "nonlocal", "global",
                               "store_global"}}
  IN IF above = {} THEN 0 ELSE CHOOSE j \in above : \A l \in above : l <= j

\* Python compiles the nest: a nonlocal declaration needs a binding in an
\* enclosing function, which a global declaration in between hides (the
\* outermost function may itself be nested in a function that is not analysed)
Compiles(hows) ==
  \A i \in 1..Len(hows) :
    hows[i] = "nonlocal" =>
      (NearestBinder(hows, i) = 0
         \/ hows[NearestBinder(hows, i)] \notin {"global", "store_global"})

ScopeCases ==
  {[depth |-> Len(hows), hows |-> hows, def_first |-> def_first,
    node |-> Nest(hows, 1, def_first),
    visits |-> StmtEvents(Nest(hows, 1, def_first))] :
     <<hows, def_first>> \in
       {hd \in (UNION {[1..d -> Mentions] : d \in 1..MaxDepth}) \X BOOLEAN :
          Compiles(hd[1])}}

InitScope ==
  /\ IdleStore /\ IdleBool /\ IdleRun /\ IdlePass /\ IdleCall /\ IdleStage /\ IdleIso /\ IdleParse /\ IdleNamer /\ IdleVisit /\ IdleOps /\ IdleWhile
  /\ scase \in ScopeCases
  /\ spc = "walk"
  /\ sevs = scase.visits
  /\ sst = NoScopes

\* one visit of the walk: visit_FunctionDef (in two halves), visit_Name,
\* visit_Nonlocal, visit_Global
ScopeVisit ==
  /\ spc = "walk" /\ sevs # <<>>
  /\ sst' = ScopeStep(sst, Head(sevs))
  /\ sevs' = Tail(sevs)
  /\ UNCHANGED <<scase, spc>>
  /\ UNCHANGED notScope

\* visit(node) returns; the scopes are handed to the VariableTransformer
ScopeBuilt ==
  /\ spc = "walk" /\ sevs = <<>>
  /\ spc' = "done"
  /\ UNCHANGED <<scase, sevs, sst>>
  /\ UNCHANGED notScope

NextScope == ScopeVisit \/ ScopeBuilt

SpecScope == InitScope /\ [][NextScope]_vars

\* the scope that binds x for function i, as Python resolves it: i itself
\* when x is local there, else the nearest enclosing function where x is
\* local; 0 when the name resolves outside the analysed functions
RECURSIVE BindingScope(_, _)
BindingScope(hows, i) ==
  IF i = 0 THEN 0
  ELSE IF hows[i] \in {"store", "param"} THEN i
  ELSE IF hows[i] \in {"global", "store_global"} THEN 0
  ELSE BindingScope(hows, i - 1)

\* C17: should_virtualize(x) in a scope that has x free or nonlocal is the
\* answer of the nearest enclosing scope that binds x, however many scopes
\* that do not mention x lie in between; it is true for a local, false for
\* a free or nonlocal name of the outermost function and for a global.
C17_NearestBinderDecides ==
  spc = "done" =>
    \A i \in 1..scase.depth :
      LET how == scase.hows[i]
          sv == should_virtualize(sst.scopes, FuncNames[i], "x")
          binder == NearestBinder(scase.hows, i)
      IN CASE how \in {"store", "param"} -> sv = TRUE
           [] how \in {"global", "store_global"} -> sv = FALSE
           [] how \in {"load", "nonlocal"} ->
                sv = (/\ binder # 0
                      /\ should_virtualize(sst.scopes, FuncNames[binder], "x"))
           [] OTHER -> sv = FALSE

\* the same, for nests where every function between a free or nonlocal use
\* and its binder mentions the name
C17_AdjacentBinderDecides ==
  (/\ spc = "done"
   /\ \A i \in 2..scase.depth : scase.hows[i] \notin {"none", "global_def"}) =>
    C17_NearestBinderDecides

C17_WitnessAdjacent ==
  /\ spc = "done" /\ scase.depth = 3
  /\ scase.hows = <<"store", "load", "nonlocal">>
  /\ should_virtualize(sst.scopes, "f3", "x")

\* C18: a name declared nonlocal in an inner function and used in the outer
\* function that binds it gets the same answer of should_virtualize in both
\* scopes.
C18_NonlocalAgrees ==
  spc = "done" =>
    \A i \in 1..scase.depth :
      LET outer == BindingScope(scase.hows, i) IN
      (scase.hows[i] = "nonlocal" /\ outer # 0) =>
        should_virtualize(sst.scopes, FuncNames[i], "x")
          = should_virtualize(sst.scopes, FuncNames[outer], "x")

\* the same, for an inner function nested directly in the outer one
C18_DirectlyNestedAgrees ==
  spc = "done" =>
    \A i \in 2..scase.depth :
      (scase.hows[i] = "nonlocal" /\ BindingScope(scase.hows, i) = i - 1) =>
        should_virtualize(sst.scopes, FuncNames[i], "x")
          = should_virtualize(sst.scopes, FuncNames[i - 1], "x")

C18_WitnessDirect ==
  /\ spc = "done" /\ scase.hows = <<"store", "nonlocal">>
  /\ should_virtualize(sst.scopes, "f2", "x")
  /\ should_virtualize(sst.scopes, "f1", "x")
---------------------------------------------------------------------------
(* overloads/staging.py: RewritingCallOverload *)

MaxWrappers == 3
MaxWrites == 3

\* the functions of the host program
Originals == {"foo", "goo"}
Replacements == {"bar", "baz"}

\* self._registry.get(original_id, None)
registry_get(registry, original) ==
  IF original \in DOMAIN registry THEN registry[original] ELSE "None"

\* replaces(original): the ValueError, or the wrapper closing over original
replaces_unchecked(registry, original) == [ok |-> TRUE, wrapper |-> original]

replaces(registry, original) ==
  IF registry_get(registry, original) # "None"
    THEN [ok |-> FALSE, exc |-> "ValueError"]
    ELSE [ok |-> TRUE, wrapper |-> original]

\* wrapper(f): self._registry[original_id] = f
wrapper(registry, original_id, f) ==
  (original_id :> f) @@ registry

\* __call__(f, args, kwargs): the function that ends up called
dispatch(registry, f) ==
  IF f \in DOMAIN registry THEN registry[f] ELSE f

\* __init__(default_call)
InitStage ==
  /\ IdleStore /\ IdleBool /\ IdleRun /\ IdlePass /\ IdleCall /\ IdleScope /\ IdleIso /\ IdleParse /\ IdleNamer /\ IdleVisit /\ IdleOps /\ IdleWhile
  /\ gpc = "constructed"
  /\ gregistry = <<>>
  /\ gwrappers = <<>>
  /\ gfirst = <<>>
  /\ gwrites = [o \in Originals |-> 0]
  /\ glast = [op |-> "init"]

\* call.replaces(original)
StageReplaces ==
  /\ gpc = "constructed"
  /\ Len(gwrappers) < MaxWrappers
  /\ \E original \in Originals :
       LET r == replaces(gregistry, original) IN
       /\ gwrappers' = IF r.ok THEN Append(gwrappers, r.wrapper) ELSE gwrappers
       /\ glast' = IF r.ok THEN [op |-> "replaces", original |-> original]
                   ELSE [op |-> "raise", original |-> original, exc |-> r.exc]
  /\ UNCHANGED <<gpc, gregistry, gfirst, gwrites>>
  /\ UNCHANGED notStage

\* the application of a decorator that replaces returned: wrapper(f)
StageWrapper ==
  /\ gpc = "constructed"
  /\ \E w \in 1..Len(gwrappers), f \in Replacements :
       LET original == gwrappers[w] IN
       /\ gwrites[original] < MaxWrites
       /\ gregistry' = wrapper(gregistry, original, f)
       /\ gfirst' = IF original \in DOMAIN gfirst THEN gfirst
                    ELSE (original :> f) @@ gfirst
       /\ gwrites' = [gwrites EXCEPT ![original] = @ + 1]
       /\ glast' = [op |-> "wrapper", original |-> original, f |-> f]
  /\ UNCHANGED <<gpc, gwrappers>>
  /\ UNCHANGED notStage

\* call(f, args, kwargs)
StageCall ==
  /\ gpc = "constructed"
  /\ \E f \in Originals \cup Replacements :
       glast' = [op |-> "call", f |-> f, callee |-> dispatch(gregistry, f)]
  /\ UNCHANGED <<gpc, gregistry, gwrappers, gfirst, gwrites>>
  /\ UNCHANGED notStage

NextStage == StageReplaces \/ StageWrapper \/ StageCall

SpecStage == InitStage /\ [][NextStage]_vars

\* C19: whatever the order of the calls of replaces and of the decorators it
\* returned, no original is registered twice, and calls of a replaced
\* original go to the first replacement registered for it.
C19_NoSecondRegistration ==
  gpc = "constructed" =>
    /\ \A o \in Originals : gwrites[o] <= 1
    /\ \A o \in DOMAIN gfirst : dispatch(gregistry, o) = gfirst[o]
    /\ glast.op = "call" /\ glast.f \in DOMAIN gfirst =>
         glast.callee = gfirst[glast.f]

\* replaces(original) called once original is in the registry raises, and
\* leaves the registry alone
C19_ReplacesAfterRegistrationRaises ==
  [][\A o \in Originals :
       (StageReplaces /\ glast'.original = o /\ o \in DOMAIN gregistry) =>
         /\ glast'.op = "raise" /\ glast'.exc = "ValueError"
         /\ gwrappers' = gwrappers]_vars

C19_WitnessRaises ==
  /\ gpc = "constructed" /\ glast.op = "raise" /\ gwrites["foo"] = 1
---------------------------------------------------------------------------
(* overloads/staging.py: execute_isolated *)

MaxVal == 1
MaxFreevars == 2
MaxNesting == 2
MaxSteps == 3

\* the Variables of the converted function, and the values they hold
IsoVars == {"a", "b"}
IsoVals == 0..MaxVal

\* what func returns
ReturnVals == {"None", "outputs"}

\* the lists that can be given as func_freevars
FreevarLists == UNION {[1..n -> IsoVars] : n \in 0..MaxFreevars}

\* [var.val for var in func_freevars]
vals_of(vals, func_freevars) ==
  [i \in 1..Len(func_freevars) |-> vals[func_freevars[i]]]

\* for var, val in zip(func_freevars, original_vals): var.val = val
restore_skipped(vals, func_freevars, original_vals) == vals

RECURSIVE restore(_, _, _)
restore(vals, func_freevars, original_vals) ==
  IF Len(func_freevars) = 0 \/ Len(original_vals) = 0 THEN vals
  ELSE restore([vals EXCEPT ![Head(func_freevars)] = Head(original_vals)],
               Tail(func_freevars), Tail(original_vals))

InitIso ==
  /\ IdleStore /\ IdleBool /\ IdleRun /\ IdlePass /\ IdleCall /\ IdleScope /\ IdleParse /\ IdleNamer /\ IdleVisit /\ IdleOps /\ IdleWhile
  /\ IdleStage
  /\ ipc = "ready"
  /\ ivals \in [IsoVars -> IsoVals]
  /\ istack = <<>>
  /\ isteps = 0
  /\ ilast = [op |-> "none"]

\* execute_isolated(func, func_freevars) is called, by the overload or by
\* the func of a call in progress: original_vals is taken, func starts
IsoCall ==
  /\ ipc = "ready"
  /\ Len(istack) < MaxNesting /\ isteps < MaxSteps
  /\ \E func_freevars \in FreevarLists :
       istack' = <<[func_freevars |-> func_freevars,
                    original_vals |-> vals_of(ivals, func_freevars)]>>
                   \o istack
  /\ isteps' = isteps + 1
  /\ ilast' = [op |-> "none"]
  /\ UNCHANGED <<ipc, ivals>>
  /\ UNCHANGED notIso

\* func assigns a Variable, one of func_freevars or not
IsoAssign ==
  /\ ipc = "ready"
  /\ istack # <<>> /\ isteps < MaxSteps
  /\ \E var \in IsoVars, val \in IsoVals :
       ivals' = [ivals EXCEPT ![var] = val]
  /\ isteps' = isteps + 1
  /\ ilast' = [op |-> "none"]
  /\ UNCHANGED <<ipc, istack>>
  /\ UNCHANGED notIso

\* func returns: modified_vals is taken, the variables are restored, and
\* execute_isolated returns (modified_vals, return_vals)
IsoReturn ==
  /\ ipc = "ready"
  /\ istack # <<>>
  /\ LET frame == Head(istack)
         modified_vals == vals_of(ivals, frame.func_freevars)
     IN /\ ivals' = restore(ivals, frame.func_freevars, frame.original_vals)
        /\ \E return_vals \in ReturnVals :
             ilast' = [op |-> "return",
                       func_freevars |-> frame.func_freevars,
                       nesting |-> Len(istack),
                       before |-> frame.original_vals,
                       result |-> <<modified_vals, return_vals>>]
  /\ istack' = Tail(istack)
  /\ UNCHANGED <<ipc, isteps>>
  /\ UNCHANGED notIso

\* func raises: the exception leaves execute_isolated at the call of func,
\* the statements after it do not run
IsoRaise ==
  /\ ipc = "ready"
  /\ istack # <<>>
  /\ ilast' = [op |-> "raise"]
  /\ istack' = Tail(istack)
  /\ UNCHANGED <<ipc, ivals, isteps>>
  /\ UNCHANGED notIso

NextIso == IsoCall \/ IsoAssign \/ IsoReturn \/ IsoRaise

SpecIso == InitIso /\ [][NextIso]_vars

\* C20: when execute_isolated returns, each variable of func_freevars holds
\* the value it held before the call, and the modified values returned are
\* the values the variables held right after func ran, in the order of
\* func_freevars; nested calls and repeated variables included.
C20_RestoredAndCaptured ==
  [][IsoReturn =>
       LET fv == ilast'.func_freevars IN
       /\ Len(ilast'.before) = Len(fv) /\ Len(ilast'.result[1]) = Len(fv)
       /\ \A i \in 1..Len(fv) :
            /\ ivals'[fv[i]] = ilast'.before[i]
            /\ ilast'.result[1][i] = ivals[fv[i]]
       /\ \A var \in IsoVars \ SeqToSet(fv) : ivals'[var] = ivals[var]]_vars

\* a nested call returned, with a variable given twice that func had changed
C20_Witness ==
  /\ ilast.op = "return" /\ ilast.nesting = 2
  /\ ilast.func_freevars = <<"a", "a">>
  /\ ilast.result[1][1] # ilast.before[1]
  /\ ivals["a"] = ilast.before[1]
  /\ ilast.result[1][2] = ilast.result[1][1]
---------------------------------------------------------------------------
(* core/parsing.py: parse_entity *)

MaxLines == 2
MaxCols == 2

\* a source text, as the lengths of its lines (source.split('\n'))
Sources == UNION {[1..n -> 0..MaxCols] : n \in 1..MaxLines}

\* the entities: a def, a lambda, and a bound method or code object whose
\* source is that of a lambda
Entities ==
  {[isfunction |-> TRUE, name |-> "f"],
   [isfunction |-> TRUE, name |-> "<lambda>"],
   [isfunction |-> FALSE, name |-> "<lambda>"]}

\* what parse_str does with a source: a tree, or a SyntaxError (of which
\* IndentationError is a subclass) at a line and an offset, both 1-based
Parsed == [k |-> "tree"]
SyntaxErrors(source) ==
  {[k |-> "raise", exc |-> exc, lineno |-> lineno, offset |-> offset] :
     exc \in {"SyntaxError", "IndentationError"},
     lineno \in 1..Len(source), offset \in 0..(MaxCols + 1)}
ParseOutcomes(source) == {Parsed} \cup SyntaxErrors(source)

\* lines[:lineno], with lines[-1] = lines[-1][:offset - 1]
Truncated(lines, lineno, offset) ==
  LET kept == SubSeq(lines, 1, lineno)
      last == kept[Len(kept)]
      cut == IF offset >= 1 THEN (IF offset - 1 < last THEN offset - 1 ELSE last)
             ELSE (IF last >= 1 THEN last - 1 ELSE 0)
  IN [kept EXCEPT ![Len(kept)] = cut]

\* fail(comment): the ValueError, with the sources its message shows
fail(reported) == [k |-> "raise", exc |-> "ValueError", reported |-> reported]

\* except SyntaxError, for an entity that is no lambda function: raise
reraise_as_failure(e, source) == fail(<<source>>)

reraise(e, source) == [k |-> "raise", exc |-> e.exc, reported |-> <<>>]

\* inspect.isfunction(entity) and entity.__name__ == '<lambda>'
is_lambda(entity) == entity.isfunction /\ entity.name = "<lambda>"

InitParse ==
  /\ IdleStore /\ IdleBool /\ IdleRun /\ IdlePass /\ IdleCall /\ IdleScope /\ IdleNamer /\ IdleVisit /\ IdleOps /\ IdleWhile
  /\ IdleStage /\ IdleIso
  /\ \E entity \in Entities, source \in Sources :
       \E first \in ParseOutcomes(source) :
         \E second \in (IF first.k = "raise"
                        THEN {Parsed, [k |-> "raise", exc |-> "SyntaxError",
                                       lineno |-> 1, offset |-> 0]}
                        ELSE {Parsed}) :
           ecase = [kind |-> "entity", entity |-> entity, source |-> source,
                    first |-> first, second |-> second]
  /\ epc = "start"
  /\ etried = <<>>
  /\ eres = [k |-> "none"]

\* lines 38-51: getsource, dedent, parse_str(source)
ParseFirst ==
  /\ epc = "start"
  /\ etried' = <<ecase.source>>
  /\ IF ecase.first.k = "tree"
       THEN /\ eres' = [k |-> "return", source |-> ecase.source]
            /\ epc' = "done"
       ELSE /\ eres' = eres
            /\ epc' = "except"
  /\ UNCHANGED ecase
  /\ UNCHANGED notParse

\* lines 53-57: except IndentationError
ParseIndentation ==
  /\ epc = "except" /\ ecase.first.exc = "IndentationError"
  /\ eres' = fail(<<ecase.source>>)
  /\ epc' = "done"
  /\ UNCHANGED <<ecase, etried>>
  /\ UNCHANGED notParse

\* lines 59-61: except SyntaxError, the entity is no lambda function
ParseReraise ==
  /\ epc = "except" /\ ecase.first.exc = "SyntaxError"
  /\ ~is_lambda(ecase.entity)
  /\ eres' = reraise(ecase.first, ecase.source)
  /\ epc' = "done"
  /\ UNCHANGED <<ecase, etried>>
  /\ UNCHANGED notParse

\* lines 73-79: nothing to chip away
ParseGiveUp ==
  /\ epc = "except" /\ ecase.first.exc = "SyntaxError"
  /\ is_lambda(ecase.entity)
  /\ Len(ecase.source) = ecase.first.lineno
  /\ ecase.source[Len(ecase.source)] = ecase.first.offset
  /\ eres' = fail(<<ecase.source>>)
  /\ epc' = "done"
  /\ UNCHANGED <<ecase, etried>>
  /\ UNCHANGED notParse

\* lines 81-93: the source is cut at the error and parsed again
ParseRetry ==
  /\ epc = "except" /\ ecase.first.exc = "SyntaxError"
  /\ is_lambda(ecase.entity)
  /\ ~(/\ Len(ecase.source) = ecase.first.lineno
       /\ ecase.source[Len(ecase.source)] = ecase.first.offset)
  /\ LET new_source == Truncated(ecase.source, ecase.first.lineno,
                                 ecase.first.offset)
     IN /\ etried' = Append(etried, new_source)
        /\ eres' = IF ecase.second.k = "tree"
                   THEN [k |-> "return", source |-> new_source]
                   ELSE fail(<<ecase.source, new_source>>)
  /\ epc' = "done"
  /\ UNCHANGED ecase
  /\ UNCHANGED notParse

NextParse ==
  ParseFirst \/ ParseIndentation \/ ParseReraise \/ ParseGiveUp \/ ParseRetry

SpecParse == InitParse /\ [][NextParse]_vars

\* the outcome of the parse of the i-th source tried
AttemptOf(i) == IF i = 1 THEN ecase.first ELSE ecase.second

\* C21: parse_entity parses at most twice, the second time only for a
\* lambda whose first parse raised a syntax error; when no attempt yields a
\* tree it fails with the ValueError that reports the sources tried, and
\* it returns only a tree that an attempt yielded.
C21_FailsWithExtractionError ==
  epc = "done" =>
    /\ Len(etried) \in 1..2
    /\ Len(etried) = 2 =>
         (ecase.entity.name = "<lambda>" /\ ecase.first.k = "raise")
    /\ (\A i \in 1..Len(etried) : AttemptOf(i).k # "tree") =>
         (eres.k = "raise" /\ eres.exc = "ValueError"
            /\ eres.reported = etried)
    /\ eres.k = "return" =>
         (AttemptOf(Len(etried)).k = "tree"
            /\ eres.source = etried[Len(etried)])

\* the same, for entities that are lambda functions
C21_LambdaFailsWithValueError ==
  (epc = "done" /\ is_lambda(ecase.entity)) => C21_FailsWithExtractionError

C21_WitnessRetryFailed ==
  /\ epc = "done" /\ Len(etried) = 2 /\ eres.k = "raise"
  /\ eres.reported = etried /\ etried[2] # etried[1]
---------------------------------------------------------------------------
(* SpecNamer: the calls of new_symbol in one conversion *)

MaxCalls == 4

\* the names of the converted program: parameters and nested functions
ProgramNames == {"x", "x_1", "f", "if_body"}

\* the parameter lists of the functions the Variables pass rewrites
ArgLists == {args \in UNION {[1..n -> ProgramNames] : n \in 1..2} :
               \A i, j \in 1..Len(args) : i # j => args[i] # args[j]}

\* the roots the ControlFlow pass asks helper names for
HelperRoots ==
  {<<"if_test", "if_body", "if_orelse">>, <<"while_body", "while_orelse">>,
   <<"for_body", "for_orelse">>}

\* the calls as history: the names returned, each with what was reserved
NamesReturned(names, reserved) ==
  [i \in 1..Len(names) |-> [name |-> names[i], reserved |-> reserved]]

\* convert: Namer(entity_info.namespace); new_symbol('overload', set())
InitNamer ==
  /\ IdleStore /\ IdleBool /\ IdleRun /\ IdlePass /\ IdleCall /\ IdleScope /\ IdleVisit /\ IdleOps /\ IdleWhile
  /\ IdleStage /\ IdleIso /\ IdleParse
  /\ npc = "converting"
  /\ ngen = {new_symbol("overload", {}, {})}
  /\ nhist = NamesReturned(<<new_symbol("overload", {}, {})>>, {})

\* visit_If, visit_While, visit_For of the ControlFlow pass
NamerHelpers ==
  /\ npc = "converting" /\ Len(nhist) < MaxCalls
  /\ \E roots \in HelperRoots :
       LET r == new_symbols(roots, {}, ngen) IN
       /\ ngen' = r.gen
       /\ nhist' = nhist \o NamesReturned(r.names, {})
  /\ UNCHANGED npc
  /\ UNCHANGED notNamer

\* visit_FunctionDef of the Variables pass: the parameters
NamerParams ==
  /\ npc = "converting" /\ Len(nhist) < MaxCalls
  /\ \E arg_names \in ArgLists :
       LET r == new_symbols(arg_names, SeqToSet(arg_names), ngen) IN
       /\ ngen' = r.gen
       /\ nhist' = nhist \o NamesReturned(r.names, SeqToSet(arg_names))
  /\ UNCHANGED npc
  /\ UNCHANGED notNamer

\* visit_FunctionDef of the Variables pass: a nested function; visit_For:
\* the loop target
NamerRenamed ==
  /\ npc = "converting" /\ Len(nhist) < MaxCalls
  /\ \E asked \in {[root |-> name, reserved |-> {name}] : name \in ProgramNames}
                   \cup {[root |-> "n_target", reserved |-> SeqToSet(targets)] :
                           targets \in ArgLists} :
       LET r == new_symbols(<<asked.root>>, asked.reserved, ngen) IN
       /\ ngen' = r.gen
       /\ nhist' = nhist \o NamesReturned(r.names, asked.reserved)
  /\ UNCHANGED npc
  /\ UNCHANGED notNamer

\* _wrap_in_generator: new_symbol('gen_fun', set()), the last of a conversion
NamerWrap ==
  /\ npc = "converting"
  /\ LET r == new_symbols(<<"gen_fun">>, {}, ngen) IN
     /\ ngen' = r.gen
     /\ nhist' = nhist \o NamesReturned(r.names, {})
  /\ npc' = "wrapped"
  /\ UNCHANGED notNamer

NextNamer == NamerHelpers \/ NamerParams \/ NamerRenamed \/ NamerWrap

SpecNamer == InitNamer /\ [][NextNamer]_vars

\* C22: within one conversion each name new_symbol returns differs from
\* every name it returned before and from the names reserved in that call,
\* so the overload symbol, the helper functions, the renamed parameters and
\* the renamed nested functions are pairwise distinct.
C22_NamesNeverCollide ==
  /\ \A i \in 1..Len(nhist) :
       /\ nhist[i].name \notin nhist[i].reserved
       /\ \A j \in 1..(i - 1) : nhist[j].name # nhist[i].name
  /\ ngen = {nhist[i].name : i \in 1..Len(nhist)}

\* the same root was asked for again, and a parameter was renamed twice
C22_Witness ==
  /\ npc = "wrapped"
  /\ \E i, j \in 1..Len(nhist) :
       /\ i < j
       /\ nhist[i] = [name |-> "x_1", reserved |-> {"x"}]
       /\ nhist[j] = [name |-> "x_2", reserved |-> {"x"}]
  /\ \E i \in 1..Len(nhist) : nhist[i].name = "if_body_1"
---------------------------------------------------------------------------
(* sct/transformer.py: Base.visit, its error handling *)

MaxVisitDepth == 4

\* the nodes on the path from the root to the node at depth d:
\* Module, FunctionDef, If, and further nested Ifs
NodeAt(d) ==
  IF d = 1 THEN "Module" ELSE IF d = 2 THEN "FunctionDef"
  ELSE "If_" \o ToString(d - 2)

\* what the subclass's visit method of the faulty node does, and the
\* exceptions it raises
Faults == {"none", "raise", "corrupt_raise", "list_visit"}
Raisable ==
  {[type |-> t, msg |-> "I blew up"] :
     t \in {"ValueError", "AttributeError", "KeyError", "NotImplementedError"}}

\* visit(node) of a value that is no node: raised before the visit
\* installs its error handler
NotANodeError ==
  [type |-> "ValueError", msg |-> "expected ast.AST, got list"]

\* the rendering of a node for the context of an error; the rendering of a
\* corrupted node fails
Render(node, broken) ==
  IF node \in broken THEN [ok |-> FALSE, exc |-> "AttributeError"]
  ELSE [ok |-> TRUE, text |-> node]

\* the error handler of visit(node): context is attached to an exception
\* that has none yet, and the exception is raised again as it is
attach_context_unguarded(exc, node, broken) ==
  IF exc.node # "" THEN exc
  ELSE IF Render(node, broken).ok THEN [exc EXCEPT !.node = node]
  ELSE [type |-> Render(node, broken).exc, msg |-> "NotANode has no _fields",
        node |-> ""]

attach_context(exc, node, broken) ==
  IF exc.node # "" THEN exc
  ELSE [exc EXCEPT !.node = node]

InitVisit ==
  /\ IdleStore /\ IdleBool /\ IdleRun /\ IdlePass /\ IdleCall /\ IdleScope /\ IdleOps /\ IdleWhile
  /\ IdleStage /\ IdleIso /\ IdleParse /\ IdleNamer
  /\ \E depth \in 3..MaxVisitDepth, at \in 1..MaxVisitDepth,
        fault \in Faults, exc \in Raisable :
       /\ at <= depth
       /\ vcase = [depth |-> depth, at |-> at, fault |-> fault, exc |-> exc]
  /\ vpc = "visit"
  /\ vstack = <<>>
  /\ vbroken = {}
  /\ vorig = [type |-> "none"]
  /\ vexc = [type |-> "none"]

\* visit(node): node is a node; the handler is installed and the visit
\* method is entered, which visits the children (generic_visit)
VisitEnter ==
  /\ vpc = "visit"
  /\ Len(vstack) < vcase.depth
  /\ vcase.fault = "none" \/ Len(vstack) < vcase.at
  /\ vstack' = <<NodeAt(Len(vstack) + 1)>> \o vstack
  /\ UNCHANGED <<vcase, vpc, vbroken, vorig, vexc>>
  /\ UNCHANGED notVisit

\* the subclass's visit method of the node just entered raises, after
\* corrupting the node or not
VisitRaise ==
  /\ vpc = "visit"
  /\ Len(vstack) = vcase.at
  /\ vcase.fault \in {"raise", "corrupt_raise"}
  /\ vbroken' = IF vcase.fault = "corrupt_raise" THEN {Head(vstack)} ELSE {}
  /\ vorig' = vcase.exc
  /\ vexc' = [type |-> vcase.exc.type, msg |-> vcase.exc.msg, node |-> ""]
  /\ vpc' = "unwind"
  /\ UNCHANGED <<vcase, vstack>>
  /\ UNCHANGED notVisit

\* the subclass's visit method calls self.visit(node.body), a list
VisitList ==
  /\ vpc = "visit"
  /\ Len(vstack) = vcase.at
  /\ vcase.fault = "list_visit"
  /\ vorig' = NotANodeError
  /\ vexc' = [type |-> NotANodeError.type, msg |-> NotANodeError.msg,
              node |-> ""]
  /\ vpc' = "unwind"
  /\ UNCHANGED <<vcase, vstack, vbroken>>
  /\ UNCHANGED notVisit

\* the error handler of the innermost visit in progress
VisitHandle ==
  /\ vpc = "unwind" /\ vstack # <<>>
  /\ vexc' = attach_context(vexc, Head(vstack), vbroken)
  /\ vstack' = Tail(vstack)
  /\ UNCHANGED <<vcase, vpc, vbroken, vorig>>
  /\ UNCHANGED notVisit

\* the exception leaves the outermost visit
VisitLeave ==
  /\ vpc = "unwind" /\ vstack = <<>>
  /\ vpc' = "raised"
  /\ UNCHANGED <<vcase, vstack, vbroken, vorig, vexc>>
  /\ UNCHANGED notVisit

\* a visit returns its node
VisitReturn ==
  /\ vpc = "visit" /\ vcase.fault = "none"
  /\ Len(vstack) = vcase.depth
  /\ vpc' = "return"
  /\ UNCHANGED <<vcase, vstack, vbroken, vorig, vexc>>
  /\ UNCHANGED notVisit

VisitExit ==
  /\ vpc = "return"
  /\ IF vstack = <<>> THEN vpc' = "returned" /\ vstack' = vstack
     ELSE vpc' = vpc /\ vstack' = Tail(vstack)
  /\ UNCHANGED <<vcase, vbroken, vorig, vexc>>
  /\ UNCHANGED notVisit

NextVisit ==
  \/ VisitEnter \/ VisitRaise \/ VisitList \/ VisitHandle \/ VisitLeave
  \/ VisitReturn \/ VisitExit

SpecVisit == InitVisit /\ [][NextVisit]_vars

\* C23: the exception that leaves the outermost visit has the type and the
\* message of the exception first raised, also when the subclass corrupted
\* the tree before raising or passed a list to visit; the handler blames
\* the node whose visit method failed and raises nothing of its own.
C23_OriginalErrorSurvives ==
  vpc \in {"unwind", "raised"} =>
    /\ vexc.type = vorig.type /\ vexc.msg = vorig.msg
    /\ vpc = "raised" => vexc.node = NodeAt(vcase.at)

C23_WitnessCorrupted ==
  /\ vpc = "raised" /\ vcase.fault = "corrupt_raise" /\ vcase.at = 3
  /\ vbroken = {"If_1"} /\ vexc.node = "If_1"
  /\ vexc.type = "ValueError" /\ vexc.msg = "I blew up"

C23_WitnessList ==
  /\ vpc = "raised" /\ vcase.fault = "list_visit" /\ vcase.at = 3
  /\ vexc.type = "ValueError" /\ vexc.node = "If_1"
---------------------------------------------------------------------------
(* SpecOps: the operations of one Scope, in any order *)

\* the names given to the operations
OpNames == {"x", "y"}

\* scoping.Scope(None)
InitOps ==
  /\ IdleStore /\ IdleBool /\ IdleRun /\ IdlePass /\ IdleCall /\ IdleScope /\ IdleWhile
  /\ IdleStage /\ IdleIso /\ IdleParse /\ IdleNamer /\ IdleVisit
  /\ kpc = "made"
  /\ kscope = Scope("", "func")
  /\ klast = [op |-> "Scope"]
  /\ kfreed = {}

OpsAddLocal ==
  /\ kpc = "made"
  /\ \E var \in OpNames :
       /\ kscope' = add_local(kscope, var)
       /\ klast' = [op |-> "add_local", var |-> var, before |-> kscope]
       /\ kfreed' = kfreed \ {var}
  /\ UNCHANGED kpc
  /\ UNCHANGED notOps

OpsAddFree ==
  /\ kpc = "made"
  /\ \E var \in OpNames :
       /\ kscope' = add_free(kscope, var)
       /\ klast' = [op |-> "add_free", var |-> var, before |-> kscope]
       /\ kfreed' = IF is_local(kscope, var) THEN kfreed \cup {var} ELSE kfreed
  /\ UNCHANGED kpc
  /\ UNCHANGED notOps

OpsAddNonlocal ==
  /\ kpc = "made"
  /\ \E var \in OpNames :
       /\ kscope' = add_nonlocal(kscope, var)
       /\ klast' = [op |-> "add_nonlocal", var |-> var, before |-> kscope]
       /\ kfreed' = kfreed \ {var}
  /\ UNCHANGED kpc
  /\ UNCHANGED notOps

OpsAddGlobal ==
  /\ kpc = "made"
  /\ \E var \in OpNames :
       /\ kscope' = add_global(kscope, var)
       /\ klast' = [op |-> "add_global", var |-> var, before |-> kscope]
       /\ kfreed' = kfreed \ {var}
  /\ UNCHANGED kpc
  /\ UNCHANGED notOps

NextOps == OpsAddLocal \/ OpsAddFree \/ OpsAddNonlocal \/ OpsAddGlobal

SpecOps == InitOps /\ [][NextOps]_vars

\* C24: after any sequence of the four operations no name is in both
\* locals and free.
C24_LocalsFreeDisjoint ==
  kpc = "made" => kscope.locals \cap kscope.free = {}

\* C24, as the code has it: add_local removes the name from free; add_free
\* leaves locals as it is, so a name is in both sets exactly when add_free
\* was its last classification while it was local.
C24_OnlyAddLocalRemoves ==
  kpc = "made" =>
    /\ kscope.locals \cap kscope.free = kfreed
    /\ klast.op = "add_local" =>
         (klast.var \in kscope.locals /\ klast.var \notin kscope.free)
    /\ klast.op = "add_free" =>
         (klast.var \in kscope.free /\ kscope.locals = klast.before.locals)

C24_Witness ==
  /\ kpc = "made" /\ klast.op = "add_local" /\ klast.var = "x"
  /\ "x" \in klast.before.free /\ "x" \notin kscope.free
  /\ "y" \in kscope.locals \cap kscope.free
---------------------------------------------------------------------------
(* SpecScope: the classification of declared names *)

\* the names function i declares global or nonlocal
Declared(hows, i) ==
  IF hows[i] \in {"global", "store_global", "nonlocal"} THEN {"x"}
  ELSE IF hows[i] = "global_def" /\ i < Len(hows) THEN {FuncNames[i + 1]}
  ELSE {}

\* C25: a name declared global or nonlocal in a function is not local in
\* the Scope the analyzer produces for that function, also when the
\* declaration comes after a store to the name.
C25_DeclaredNotLocal ==
  spc = "done" =>
    \A i \in 1..scase.depth :
      Declared(scase.hows, i) \cap sst.scopes[FuncNames[i]].locals = {}

\* the same, for declared names that are not the name of a nested function
C25_DeclaredVariableNotLocal ==
  spc = "done" =>
    \A i \in 1..scase.depth :
      (Declared(scase.hows, i) \cap {"x"})
        \cap sst.scopes[FuncNames[i]].locals = {}

C25_WitnessGlobalAfter ==
  /\ spc = "done" /\ scase.hows = <<"store_global">> /\ ~scase.def_first
  /\ sst.scopes["f1"].globals = {"x"} /\ sst.scopes["f1"].locals = {}
---------------------------------------------------------------------------
(* SpecScope: one Scope per function definition *)

\* the visits made so far, and how many of them entered or left a def
Visited == SubSeq(scase.visits, 1, Len(scase.visits) - Len(sevs))
Entered == Cardinality({i \in 1..Len(Visited) : Visited[i].ev = "enter"})
Left == Cardinality({i \in 1..Len(Visited) : Visited[i].ev = "exit"})

\* C26: there is one Scope per function definition entered, its parent the
\* Scope of the enclosing definition (none for the outermost), with the
\* parameters local in it and the function's name local in the parent; the
\* current scope is that of the definition the walk is in, so on leaving a
\* definition it is the one that was current on entry.
C26_OneScopePerDef ==
  spc \in {"walk", "done"} =>
    /\ DOMAIN sst.scopes = {FuncNames[i] : i \in 1..Entered}
    /\ sst.scope = IF Entered = Left THEN "" ELSE FuncNames[Entered - Left]
    /\ \A i \in 1..Entered :
         LET scope == sst.scopes[FuncNames[i]] IN
         /\ scope.func_name = FuncNames[i]
         /\ scope.parent = IF i = 1 THEN "" ELSE FuncNames[i - 1]
         /\ scase.hows[i] = "param" => "x" \in scope.locals
         /\ i > 1 => FuncNames[i] \in sst.scopes[FuncNames[i - 1]].locals
    /\ spc = "done" => (Entered = scase.depth /\ Left = scase.depth)

C26_Witness ==
  /\ spc = "done" /\ scase.depth = 3
  /\ scase.hows = <<"param", "param", "load">>
  /\ sst.scope = ""
  /\ sst.scopes["f3"].parent = "f2" /\ sst.scopes["f2"].parent = "f1"
  /\ "x" \in sst.scopes["f2"].locals /\ "f3" \in sst.scopes["f2"].locals
---------------------------------------------------------------------------
(* SpecPass: the entry of the functions the Variables pass rewrites *)

\* the function definitions in a block, in order, those inside other
\* definitions left out
RECURSIVE DefsIn(_)
DefsIn(stmts) ==
  IF Len(stmts) = 0 THEN <<>>
  ELSE LET s == Head(stmts) IN
       (IF s.k = "FunctionDef" THEN <<s>>
        ELSE DefsIn(StmtBlock(s))) \o DefsIn(Tail(stmts))

\* is s the statement `name = overload.init("name")`
IsInit(s, name) ==
  /\ s.k = "Assign" /\ Len(s.targets) = 1 /\ s.targets[1] = Name(name)
  /\ IsOverloadCall(s.value, PassCfg.symbol_name, "init")
  /\ s.value.args = <<Str(name)>>

\* is s the statement overload.assign(param, fresh)
IsParamAssign(s, param, fresh) ==
  /\ s.k = "Expr"
  /\ IsOverloadCall(s.value, PassCfg.symbol_name, "assign")
  /\ s.value.args = <<Name(param), Name(fresh)>>

\* is s an init, or the assign of one of the renamed parameters
IsEntryStmt(s, fresh) ==
  \/ (s.k = "Assign" /\ IsOverloadCall(s.value, PassCfg.symbol_name, "init"))
  \/ (s.k = "Expr" /\ IsOverloadCall(s.value, PassCfg.symbol_name, "assign")
        /\ s.value.args[2].k = "Name" /\ s.value.args[2].id \in fresh)

\* the rewritten def starts with the inits of the locals of the Scope of
\* the original def, goes on with the assigns of the parameters in order,
\* and only then has the body; likewise the defs nested in it
RECURSIVE EntryOrdered(_, _, _)
EntryOrdered(orig, new, scopes) ==
  LET locals == scopes[orig.name].locals
      k == Cardinality(locals)
      p == Len(orig.args)
      rest == SubSeq(new.body, k + p + 1, Len(new.body))
      inner_orig == DefsIn(orig.body)
      inner_new == DefsIn(rest)
  IN /\ Len(new.args) = p
     /\ Len(new.body) >= k + p + Len(orig.body)
     /\ \A v \in locals :
          Cardinality({i \in 1..k : IsInit(new.body[i], v)}) = 1
     /\ \A j \in 1..p :
          /\ IsParamAssign(new.body[k + j], orig.args[j], new.args[j])
          /\ new.args[j] \notin SeqToSet(orig.args)
          /\ \A l \in 1..p : l # j => new.args[l] # new.args[j]
     /\ \A i \in 1..Len(rest) : ~IsEntryStmt(rest[i], SeqToSet(new.args))
     /\ Len(inner_new) = Len(inner_orig)
     /\ \A i \in 1..Len(inner_orig) :
          EntryOrdered(inner_orig[i], inner_new[i], scopes)

\* the Variables pass has run, as the first pass, and nothing after it
VariablesApplied ==
  /\ ppc = "transform"
  /\ pcase.passes[1] = "variables"
  /\ Len(ptodo) = Len(pcase.passes) - 1

\* C27: a function rewritten by the Variables pass starts with one
\* overload.init per local of its Scope, then one overload.assign per
\* parameter in parameter order, each from a fresh parameter name that is
\* no original parameter name, and only then the body.
C27_InitsThenParamsThenBody ==
  (VariablesApplied /\ ptree.k = "FunctionDef") =>
    EntryOrdered(pcase.def, ptree, BuildScopes(pcase.def))

C27_Witness ==
  /\ VariablesApplied /\ pcase.def = params_and_inner
  /\ ptree.k = "FunctionDef" /\ ptree.args = <<"a_1", "b_1">>
  /\ Len(DefsIn(ptree.body)) = 1
  /\ DefsIn(ptree.body)[1].args = <<"b_2", "c_1">>
---------------------------------------------------------------------------
(* SpecRun: the overload symbol in the converted function *)

\* C28: in the converted function the overload symbol refers to the
\* overload module: no hook is looked up on another object, and the symbol
\* is not an unbound local of the function, whatever names the original
\* function uses.
C28_SymbolIsOverloadModule ==
  (Done /\ rfn.conv # 0) =>
    /\ ~(rconv.call.exc = "UnboundLocalError"
           /\ rconv.call.msg = RunCfg.symbol_name)
    /\ ~(rconv.call.exc = "AttributeError"
           /\ rconv.call.msg \in PyDefaultsHooks)

\* the same, for functions that do not use the name of the symbol
C28_OtherNamesAreSafe ==
  rcase.fam # "shadow" => C28_SymbolIsOverloadModule

\* without a pass no hook is called, and the name of the symbol is harmless
C28_WitnessNoPass ==
  /\ Done /\ rcase.fam = "shadow" /\ rcase.passes = <<>>
  /\ rcase.func = "read_o" /\ rconv.call = rorig.call
---------------------------------------------------------------------------
(* SpecIso: the exits of execute_isolated *)

\* C29: on every exit from execute_isolated, by return or by an exception
\* of func, each variable of func_freevars holds the value it held before
\* the call.
C29_RestoredOnEveryExit ==
  [][(IsoReturn \/ IsoRaise) =>
       LET frame == Head(istack) IN
       \A i \in 1..Len(frame.func_freevars) :
         ivals'[frame.func_freevars[i]] = frame.original_vals[i]]_vars

\* an exception of func leaves every variable as func set it
C29_RaiseLeavesValues ==
  [][IsoRaise => ivals' = ivals]_vars

\* func has raised after changing a variable of func_freevars
C29_WitnessRaised ==
  /\ ilast.op = "raise"
  /\ isteps >= 2
---------------------------------------------------------------------------
(* SpecWhile: py_defaults.while_stmt, and run_python_while as tf.while_stmt *)
(* calls it after its own evaluation of cond                               *)

MaxTests == 4

\* cond is true `trues` times, then false, or raises instead of being false;
\* body raises at its invocation number body_raises (0: never)
WhileCases ==
  {cs \in [k : {"while"}, trues : 0..MaxTests, body_raises : 0..MaxTests,
           cond_raises : BOOLEAN] : cs.body_raises <= cs.trues}

\* cond(), at its i-th evaluation
cond_result(cs, i) ==
  IF i <= cs.trues THEN "true"
  ELSE IF cs.cond_raises THEN "raise" ELSE "false"

\* run_python_while: if init_cond_result: body(); while_stmt(...)
\*                   else: orelse()
run_python_while_retest(init_cond_result) ==
  IF init_cond_result THEN "test" ELSE "run_orelse"

run_python_while(init_cond_result) ==
  IF init_cond_result THEN "run_body" ELSE "run_orelse"

InitWhile ==
  /\ IdleStore /\ IdleBool /\ IdleRun /\ IdlePass /\ IdleCall /\ IdleScope
  /\ IdleStage /\ IdleIso /\ IdleParse /\ IdleNamer /\ IdleVisit /\ IdleOps
  /\ wcase \in WhileCases
  /\ wpc = "test"
  /\ wwho = "while_stmt"
  /\ wi = 0 /\ wj = 0
  /\ wc0 = FALSE
  /\ wtrace = <<>>
  /\ wexc = FALSE
  /\ wref = [k |-> "none"]

\* while cond():
WhileTest ==
  /\ wpc = "test"
  /\ wi' = wi + 1
  /\ wtrace' = Append(wtrace, "cond")
  /\ LET r == cond_result(wcase, wi + 1) IN
       /\ wpc' = CASE r = "true" -> "body"
                   [] r = "false" -> "orelse"
                   [] OTHER -> "exit"
       /\ wexc' = (r = "raise")
  /\ UNCHANGED <<wcase, wwho, wj, wc0, wref>>
  /\ UNCHANGED notWhile

\* body() of the loop
WhileBody ==
  /\ wpc = "body"
  /\ wj' = wj + 1
  /\ wtrace' = Append(wtrace, "body")
  /\ wexc' = (wj + 1 = wcase.body_raises)
  /\ wpc' = IF wj + 1 = wcase.body_raises THEN "exit" ELSE "test"
  /\ UNCHANGED <<wcase, wwho, wi, wc0, wref>>
  /\ UNCHANGED notWhile

\* else: orelse()
WhileOrelse ==
  /\ wpc = "orelse"
  /\ wtrace' = Append(wtrace, "orelse")
  /\ wpc' = "exit"
  /\ UNCHANGED <<wcase, wwho, wi, wj, wc0, wexc, wref>>
  /\ UNCHANGED notWhile

\* py_defaults.while_stmt called on its own is over; the same cond, body
\* and orelse are now given to tf.while_stmt
WhileExit ==
  /\ wpc = "exit" /\ wwho = "while_stmt"
  /\ wref' = [k |-> "ran", trace |-> wtrace, exc |-> wexc]
  /\ wwho' = "run_python_while"
  /\ wpc' = "first"
  /\ wi' = 0 /\ wj' = 0
  /\ wtrace' = <<>>
  /\ wexc' = FALSE
  /\ UNCHANGED <<wcase, wc0>>
  /\ UNCHANGED notWhile

\* tf.while_stmt: cond_result = cond(), not a tensor
TfWhileStmt ==
  /\ wpc = "first"
  /\ wi' = 1
  /\ LET r == cond_result(wcase, 1) IN
       /\ wc0' = (r = "true")
       /\ wexc' = (r = "raise")
       /\ wpc' = IF r = "raise" THEN "done" ELSE "run"
  /\ UNCHANGED <<wcase, wwho, wj, wtrace, wref>>
  /\ UNCHANGED notWhile

\* staging.run_python_while(cond, body, orelse, cond_result) is entered
RunPythonWhile ==
  /\ wpc = "run"
  /\ wpc' = run_python_while(wc0)
  /\ UNCHANGED <<wcase, wwho, wi, wj, wc0, wtrace, wexc, wref>>
  /\ UNCHANGED notWhile

\* body(), then py_defaults.while_stmt(cond, body, orelse, None)
RunBody ==
  /\ wpc = "run_body"
  /\ wj' = wj + 1
  /\ wtrace' = Append(wtrace, "body")
  /\ wexc' = (wj + 1 = wcase.body_raises)
  /\ wpc' = IF wj + 1 = wcase.body_raises THEN "exit" ELSE "test"
  /\ UNCHANGED <<wcase, wwho, wi, wc0, wref>>
  /\ UNCHANGED notWhile

\* return orelse()
RunOrelse ==
  /\ wpc = "run_orelse"
  /\ wtrace' = Append(wtrace, "orelse")
  /\ wpc' = "exit"
  /\ UNCHANGED <<wcase, wwho, wi, wj, wc0, wexc, wref>>
  /\ UNCHANGED notWhile

\* run_python_while returns, or the exception leaves it
RunExit ==
  /\ wpc = "exit" /\ wwho = "run_python_while"
  /\ wpc' = "done"
  /\ UNCHANGED <<wcase, wwho, wi, wj, wc0, wtrace, wexc, wref>>
  /\ UNCHANGED notWhile

NextWhile ==
  \/ WhileTest \/ WhileBody \/ WhileOrelse \/ WhileExit
  \/ TfWhileStmt \/ RunPythonWhile \/ RunBody \/ RunOrelse \/ RunExit

SpecWhile == InitWhile /\ [][NextWhile]_vars

\* run_python_while was called and is over
RunPythonWhileOver ==
  wpc = "done" /\ ~(wcase.trues = 0 /\ wcase.cond_raises)

\* the invocations of a whole loop, the first evaluation of cond included:
\* no two tests without a body between them, one body per true test, and
\* orelse once, last, right after the false test, unless an exception ended
\* the loop
LoopShaped(tr, tests, bodies, exc) ==
  /\ tr[1] = "cond"
  /\ \A i \in 2..Len(tr) :
       /\ tr[i] = "cond" => tr[i - 1] = "body"
       /\ tr[i] = "body" => tr[i - 1] = "cond"
       /\ tr[i] = "orelse" => i = Len(tr) /\ tr[i - 1] = "cond"
  /\ Len(SelectSeq(tr, LAMBDA x : x = "cond")) = tests
  /\ Len(SelectSeq(tr, LAMBDA x : x = "body")) = bodies
  /\ bodies = IF tests <= wcase.trues THEN tests ELSE wcase.trues
  /\ (tr[Len(tr)] = "orelse") = ~exc

\* C30: run_python_while(cond, body, orelse, c0), c0 being the result of
\* one evaluation of cond, invokes body, cond and orelse in the order
\* py_defaults.while_stmt does after its first evaluation of cond, and ends
\* the same way; no test is evaluated twice, body runs once per true test,
\* orelse once when cond is first found false.
C30_SameInvocationsAsWhileStmt ==
  RunPythonWhileOver =>
    /\ wtrace = Tail(wref.trace)
    /\ wexc = wref.exc
    /\ LoopShaped(<<"cond">> \o wtrace, wi, wj, wexc)

\* a loop of at least two iterations that ended with orelse
C30_WitnessLoop ==
  /\ RunPythonWhileOver
  /\ wc0 /\ wj >= 2 /\ ~wexc
  /\ wtrace[Len(wtrace)] = "orelse"

\* cond was false at the first evaluation: only orelse ran
C30_WitnessNoIteration ==
  /\ RunPythonWhileOver
  /\ ~wc0 /\ wtrace = <<"orelse">>
====
